---- MODULE Spec2Model ----
(***************************************************************************)
(* Logic-circuit graph engine of CosmosRust.                                *)
(*                                                                         *)
(* Part 1 models cosmos_core/src/wires/mod.rs: the per-structure WireGraph  *)
(* (groups, port -> group maps, group -> port lists) and the listener that  *)
(* keeps it consistent with the blocks of the structure.                    *)
(* Part 2 models the tick scheduler of cosmos_core/src/logic/mod.rs.        *)
(***************************************************************************)
EXTENDS Integers, Sequences, FiniteSets, TLC

VARIABLES
    structure,   \* Structure: block coordinate -> [block, up]
    wire_graph,  \* WireGraph component of the structure (plus the abort flag)
    logic_data,  \* BlockLogicData of the blocks that hold one
    events,      \* the events sent and not yet read, one sequence per event type
    logic_input_event_queue,   \* LogicInputEventQueue
    logic_output_event_queue,  \* LogicOutputEventQueue
    phase,       \* index in LogicSystemSet of the set whose systems run next
    tick,        \* the logic ticks begun so far
    ran,         \* history: the sets whose systems ran in the current pass
    written,     \* history: the tick of the latest update_producer of a Produce system
    location,    \* a Location, the receiver of the calls on Location
    other,       \* the Location passed to relative_coords_to
    relative_coords,  \* the outcome of the latest relative_coords_to
    add_assign,       \* the latest `location += rhs`: its rhs and outcome
    block_iterator,   \* a BlockIterator over the blocks of a structure
    len               \* the outcome of the latest len() of the BlockIterator

\* The values outside the logic engine.
unit_vars == <<location, other, relative_coords, add_assign, block_iterator, len>>
tick_vars == <<logic_data, events, logic_input_event_queue, logic_output_event_queue,
               phase, tick, ran, written, unit_vars>>
vars == <<structure, wire_graph, logic_data, events, logic_input_event_queue,
          logic_output_event_queue, phase, tick, ran, written, unit_vars>>

(***************************************************************************)
(* Bounds of the model.                                                     *)
(***************************************************************************)
\* The structure of Spec is GridX x GridY x 1 blocks.
GridX == 2
GridY == 2
\* No operation is taken that would move next_group_id beyond this value.
MaxGroupId == 5
\* The structure of NetSpec is NetX x NetY x 1 blocks, its group id bound.
NetX == 3
NetY == 2
NetMaxGroupId == 4
ReplayX == 3
ReplayY == 2
StoneX == 3
StoneMaxGroupId == 6
BatchX == 2
MaxBatch == 3
BatchMaxGroupId == 2
GateX == 3
GateMaxGroupId == 4
MaxPending == 1
MaxQueued == 2
\* The sectors of a Location are SectorBits wide signed integers (i64 in the
\* source).
SectorBits == 4
\* The structure a BlockIterator runs over is IterSize blocks wide, high and
\* long; a block coordinate is CoordBits wide (u64 in the source).
IterSize == 2
CoordBits == 4
\* The group id bound of SigSpec.
SigMaxGroupId == 5
\* The structure of TickSpec is TickX x 1 x TickZ blocks; no logic tick begins
\* after MaxTick ticks.
TickX == 3
TickZ == 2
MaxTick == 3
\* The number of calls on wire faces after which a recorded search is cut off.
MaxEntered == 40
\* The structure of SplitSpec is SplitX x 1 x 1 blocks, with a group id bound.
SplitX == 4
SplitMaxGroupId == 6
\* The structure of RotSpec is 1 x RotY x 1 blocks, with a group id bound.
RotY == 3
RotMaxGroupId == 3
\* RotSpec stops adding blocks once a port list holds RotMaxPorts entries.
RotMaxPorts == 3
\* The group id bound of CycleSpec.
CycleMaxGroupId == 7

\* Option::None of an Option<usize> group id, of an Option<BlockCoordinate> (and
\* the Err of step), and of an Option<LogicConnection>.
NoGroup == -1
NoCoords == <<>>
NoConnection == "None"

(***************************************************************************)
(* Block faces and coordinates.                                             *)
(***************************************************************************)
\* BlockFace indices: Right, Left, Top, Bottom, Front, Back.
Faces == 0..5

FaceDelta(face) ==
    CASE face = 0 -> <<1, 0, 0>>
      [] face = 1 -> <<-1, 0, 0>>
      [] face = 2 -> <<0, 1, 0>>
      [] face = 3 -> <<0, -1, 0>>
      [] face = 4 -> <<0, 0, 1>>
      [] OTHER    -> <<0, 0, -1>>

Inverse(face) == IF face % 2 = 0 THEN face + 1 ELSE face - 1

\* BlockCoordinate::step: the neighbour coordinate, or NoCoords when the step
\* leaves the bounds of the structure.
Step(st, coords, face) ==
    LET d == FaceDelta(face)
        n == <<coords[1] + d[1], coords[2] + d[2], coords[3] + d[3]>>
    IN  IF n \in DOMAIN st THEN n ELSE NoCoords

\* BlockFace::Right as the up face of a block.
Right == "Right"

\* BlockFace::global_to_local / local_to_global for a block whose up face is
\* `up`.  For up = Top both are the identity.  A block whose up face is Right
\* is turned about the z axis: its top points to +x, its right face to -y,
\* its left face to +y, its bottom to -x; front and back stay.
GlobalToLocal(up, face) == IF up = Right THEN <<3, 2, 0, 1, 4, 5>>[face + 1] ELSE face
LocalToGlobal(up, face) == IF up = Right THEN <<2, 3, 1, 0, 4, 5>>[face + 1] ELSE face

(***************************************************************************)
(* Registry<LogicBlock>.                                                    *)
(***************************************************************************)
Wire == "Wire"
Input == "Input"
Output == "Output"

\* and_gate.rs, register_logic_connections: inputs on Right and Left, the
\* output on Front.
AndGateConnections ==
    [f \in Faces |-> IF f \in {0, 1} THEN Input
                     ELSE IF f = 4 THEN Output ELSE NoConnection]

\* register_logic_blocks: the connections of the six faces of each logic block.
LogicBlocks ==
    [ logic_wire |-> [f \in Faces |-> Wire],
      logic_on   |-> [f \in Faces |-> Output],
      light      |-> [f \in Faces |-> Input],
      and_gate   |-> AndGateConnections ]

Air == "air"
\* The blocks placed in Spec.
BlockTypes == {Air, "logic_wire", "logic_on", "light"}
\* The blocks placed in NetSpec.
NetBlocks == {Air, "logic_wire", "logic_on"}
\* The blocks placed in StoneSpec: "stone" has no entry in Registry<LogicBlock>.
StoneBlocks == {Air, "stone", "logic_wire", "logic_on", "light", "and_gate"}

\* Registry::from_id: is there a logic entry for this block?
IsLogicBlock(block) == block \in DOMAIN LogicBlocks

\* LogicBlock::connection_on
ConnectionOn(block, face) == LogicBlocks[block][face]

\* LogicBlock::faces_with, as the ascending sequence of matching face indices.
RECURSIVE FacesFrom(_, _, _)
FacesFrom(block, connection, i) ==
    IF i > 5 THEN <<>>
    ELSE IF ConnectionOn(block, i) = connection
         THEN <<i>> \o FacesFrom(block, connection, i + 1)
         ELSE FacesFrom(block, connection, i + 1)

\* The face lists of every registered block, computed once.
FaceLists ==
    [block \in DOMAIN LogicBlocks |->
        [connection \in {Wire, Input, Output} |-> FacesFrom(block, connection, 0)]]

FacesWith(block, connection) == FaceLists[block][connection]
InputFaces(block) == FacesWith(block, Input)
OutputFaces(block) == FacesWith(block, Output)
WireFaces(block) == FacesWith(block, Wire)

(***************************************************************************)
(* Structure queries.                                                       *)
(***************************************************************************)
BlockAt(st, coords) == st[coords].block
BlockRotation(st, coords) == st[coords].up

\* Port::new and Port::all_for
Port(coords, local_face) == <<coords, local_face>>
AllFor(coords) == {Port(coords, f) : f \in Faces}

(***************************************************************************)
(* WireGraph.                                                               *)
(*                                                                         *)
(* A HashMap is a function on its key set.  A Vec<Port> of a group is only  *)
(* pushed to, searched with position() and shortened with remove(); its     *)
(* order is never observed, so it is kept as a multiset: a function from    *)
(* the ports it holds to the number of times each occurs.                   *)
(***************************************************************************)
Put(map, key, value) ==
    [k \in (DOMAIN map) \cup {key} |-> IF k = key THEN value ELSE map[k]]

Del(map, key) == [k \in (DOMAIN map) \ {key} |-> map[k]]

EmptyMap == [k \in {} |-> 0]

\* Vec::push
Push(ports, port) ==
    IF port \in DOMAIN ports THEN [ports EXCEPT ![port] = @ + 1]
    ELSE Put(ports, port, 1)

\* Vec::remove(position(port)): one occurrence less.
RemoveOne(ports, port) ==
    IF ports[port] = 1 THEN Del(ports, port) ELSE [ports EXCEPT ![port] = @ - 1]

\* WireGraph::default()
EmptyGraph ==
    [ next_group_id |-> 0,
      groups |-> EmptyMap,
      group_of_output_port |-> EmptyMap,
      group_of_input_port |-> EmptyMap,
      output_ports_of_group |-> EmptyMap,
      input_ports_of_group |-> EmptyMap,
      panicked |-> FALSE ]

\* A failed expect(): the system aborts with the graph as it is.
Panic(g) == [g EXCEPT !.panicked = TRUE]

\* LogicGroup::new
LogicGroup(on, recent_wire_coords) ==
    [on |-> on, recent_wire_coords |-> recent_wire_coords]

\* new_group_id without the increment.
NewGroupIdSame(g) == g

\* WireGraph::new_group_id: the id handed out is g.next_group_id.
NewGroupId(g) == [g EXCEPT !.next_group_id = @ + 1]

\* WireGraph::new_group: the id of the new group is g.next_group_id.
NewGroup(g, on, coords) ==
    LET id == g.next_group_id
        g1 == NewGroupId(g)
    IN  [g1 EXCEPT !.groups = Put(@, id, LogicGroup(on, coords)),
                   !.output_ports_of_group = Put(@, id, EmptyMap),
                   !.input_ports_of_group = Put(@, id, EmptyMap)]

\* WireGraph::add_completed_group
AddCompletedGroup(g, id, on, coords, output_ports, input_ports) ==
    [g EXCEPT !.groups = Put(@, id, LogicGroup(on, coords)),
              !.output_ports_of_group = Put(@, id, output_ports),
              !.input_ports_of_group = Put(@, id, input_ports)]

\* WireGraph::remove_group
RemoveGroup(g, id) ==
    LET g1 == [g EXCEPT !.output_ports_of_group = Del(@, id),
                        !.input_ports_of_group = Del(@, id)]
    IN  IF id \in DOMAIN g.groups
        THEN [g1 EXCEPT !.groups = Del(@, id)]
        ELSE Panic(g1)

\* add_port that also switches the group of the port off.
AddPortSwitchesOff(g, coords, local_face, group_id, port_type) ==
    LET port == Port(coords, local_face)
        g0 == IF group_id \in DOMAIN g.groups
              THEN [g EXCEPT !.groups[group_id].on = FALSE] ELSE g
    IN  IF port_type = Input
        THEN LET g1 == [g0 EXCEPT !.group_of_input_port = Put(@, port, group_id)]
             IN  IF group_id \in DOMAIN g1.input_ports_of_group
                 THEN [g1 EXCEPT !.input_ports_of_group[group_id] = Push(@, port)]
                 ELSE Panic(g1)
        ELSE LET g1 == [g0 EXCEPT !.group_of_output_port = Put(@, port, group_id)]
             IN  IF group_id \in DOMAIN g1.output_ports_of_group
                 THEN [g1 EXCEPT !.output_ports_of_group[group_id] = Push(@, port)]
                 ELSE Panic(g1)

\* WireGraph::add_port
AddPort(g, coords, local_face, group_id, port_type) ==
    LET port == Port(coords, local_face)
    IN  IF port_type = Input
        THEN LET g1 == [g EXCEPT !.group_of_input_port = Put(@, port, group_id)]
             IN  IF group_id \in DOMAIN g1.input_ports_of_group
                 THEN [g1 EXCEPT !.input_ports_of_group[group_id] = Push(@, port)]
                 ELSE Panic(g1)
        ELSE LET g1 == [g EXCEPT !.group_of_output_port = Put(@, port, group_id)]
             IN  IF group_id \in DOMAIN g1.output_ports_of_group
                 THEN [g1 EXCEPT !.output_ports_of_group[group_id] = Push(@, port)]
                 ELSE Panic(g1)

\* HashMap::get(..).copied()
Lookup(map, key) == IF key \in DOMAIN map THEN map[key] ELSE NoGroup

Min(S) == CHOOSE x \in S : \A y \in S : x <= y

\* No group names the coordinate.
RecentGroupNone(g, coords) == NoGroup

\* groups.iter().find_map(recent_wire_coords == Some(coords))
RecentGroup(g, coords) ==
    LET ids == {id \in DOMAIN g.groups : g.groups[id].recent_wire_coords = coords}
    IN  IF ids = {} THEN NoGroup ELSE Min(ids)

\* WireGraph::find_group: [group |-> the id found or NoGroup, visited |-> the
\* visited set as the search leaves it].
RECURSIVE FindGroup(_, _, _, _, _)
RECURSIVE FindGroupFaces(_, _, _, _, _, _)
FindGroup(g, st, coords, encountered_local_face, visited) ==
    LET block == BlockAt(st, coords)
        port == Port(coords, encountered_local_face)
        none == [group |-> NoGroup, visited |-> visited]
    IN  IF ~IsLogicBlock(block) THEN none
        ELSE
        LET encountered_face ==
                LocalToGlobal(BlockRotation(st, coords), encountered_local_face)
            connection == ConnectionOn(block, encountered_face)
            recent == RecentGroup(g, coords)
        IN  CASE connection = Input ->
                    [group |-> Lookup(g.group_of_input_port, port), visited |-> visited]
              [] connection = Output ->
                    [group |-> Lookup(g.group_of_output_port, port), visited |-> visited]
              [] connection = Wire ->
                    IF recent # NoGroup
                    THEN [group |-> recent, visited |-> visited]
                    ELSE FindGroupFaces(g, st, coords, WireFaces(block), 1,
                                        visited \cup {port})
              [] OTHER -> none

\* The loop over the wire faces inside find_group, from the i-th face on.
FindGroupFaces(g, st, coords, wire_faces, i, visited) ==
    IF i > Len(wire_faces) THEN [group |-> NoGroup, visited |-> visited]
    ELSE
    LET local_face == GlobalToLocal(BlockRotation(st, coords), wire_faces[i])
        visited1 == visited \cup {Port(coords, local_face)}
        neighbor_coords == Step(st, coords, local_face)
        found == IF neighbor_coords = NoCoords
                    \/ Port(neighbor_coords, Inverse(local_face)) \in visited1
                 THEN [group |-> NoGroup, visited |-> visited1]
                 ELSE FindGroup(g, st, neighbor_coords, Inverse(local_face), visited1)
    IN  IF found.group # NoGroup THEN found
        ELSE FindGroupFaces(g, st, coords, wire_faces, i + 1, found.visited)

\* WireGraph::find_group_all_faces, from the i-th wire face on.
RECURSIVE FindGroupAllFaces(_, _, _, _, _, _)
FindGroupAllFaces(g, st, coords, wire_faces, i, visited) ==
    IF i > Len(wire_faces) THEN NoGroup
    ELSE
    LET local_face == GlobalToLocal(BlockRotation(st, coords), wire_faces[i])
        neighbor_coords == Step(st, coords, local_face)
        found == IF neighbor_coords = NoCoords
                 THEN [group |-> NoGroup, visited |-> visited]
                 ELSE FindGroup(g, st, neighbor_coords, Inverse(local_face), visited)
    IN  IF found.group # NoGroup THEN found.group
        ELSE FindGroupAllFaces(g, st, coords, wire_faces, i + 1, found.visited)

\* The renamed group is left without a wire coordinate.
KeepRecentWireCoords(r, new_group_id, coords) ==
    [g |-> r.g, visited |-> r.visited, used |-> TRUE]

\* The end of the Wire arm of rename_group: "the first wire coords are always
\* set last".  r is the result of the loop over the wire faces.
SetRecentWireCoords(r, new_group_id, coords) ==
    [g |-> IF r.g.panicked THEN r.g
           ELSE IF new_group_id \in DOMAIN r.g.groups
           THEN [r.g EXCEPT !.groups[new_group_id].recent_wire_coords = coords]
           ELSE Panic(r.g),
     visited |-> r.visited,
     used |-> TRUE]

\* WireGraph::rename_group: [g |-> the graph after the renaming, visited |->
\* the visited set, used |-> the return value].
RECURSIVE RenameGroup(_, _, _, _, _, _)
RECURSIVE RenameGroupFaces(_, _, _, _, _, _, _)
RenameGroup(g, st, new_group_id, coords, encountered_local_face, visited) ==
    LET port == Port(coords, encountered_local_face)
        block == BlockAt(st, coords)
        unused == [g |-> g, visited |-> visited, used |-> FALSE]
    IN  IF g.panicked \/ port \in visited \/ ~IsLogicBlock(block) THEN unused
        ELSE
        LET encountered_face ==
                LocalToGlobal(BlockRotation(st, coords), encountered_local_face)
            connection == ConnectionOn(block, encountered_face)
        IN  CASE connection \in {Input, Output} ->
                    [g |-> AddPort(g, coords, encountered_local_face, new_group_id, connection),
                     visited |-> visited, used |-> TRUE]
              [] connection = Wire ->
                    SetRecentWireCoords(
                        RenameGroupFaces(g, st, new_group_id, coords, WireFaces(block), 1,
                                         visited \cup {port}),
                        new_group_id, coords)
              [] OTHER -> unused

\* The loop over the wire faces inside rename_group, from the i-th face on.
RenameGroupFaces(g, st, new_group_id, coords, wire_faces, i, visited) ==
    IF i > Len(wire_faces) \/ g.panicked THEN [g |-> g, visited |-> visited]
    ELSE
    LET local_face == GlobalToLocal(BlockRotation(st, coords), wire_faces[i])
        visited1 == visited \cup {Port(coords, local_face)}
        neighbor_coords == Step(st, coords, local_face)
        r == IF neighbor_coords = NoCoords
                \/ Port(neighbor_coords, Inverse(local_face)) \in visited1
             THEN [g |-> g, visited |-> visited1]
             ELSE RenameGroup(g, st, new_group_id, neighbor_coords,
                              Inverse(local_face), visited1)
    IN  RenameGroupFaces(r.g, st, new_group_id, coords, wire_faces, i + 1, r.visited)

\* The end of neighbor_port giving every port a new group.
AttachPortToNewGroup(g, coords, local_face, port_type, maybe_group) ==
    AddPort(NewGroup(g, FALSE, NoCoords), coords, local_face, g.next_group_id, port_type)

\* The end of neighbor_port: attach the port to the group found, or to a new
\* group when none was found.
AttachPort(g, coords, local_face, port_type, maybe_group) ==
    IF maybe_group = NoGroup
    THEN AddPort(NewGroup(g, FALSE, NoCoords), coords, local_face,
                 g.next_group_id, port_type)
    ELSE AddPort(g, coords, local_face, maybe_group, port_type)

\* neighbor_port that gives the port a new group when the step fails.
NeighborPortAlways(g, st, coords, global_face, port_type) ==
    LET local_face == GlobalToLocal(BlockRotation(st, coords), global_face)
        neighbor_coords == Step(st, coords, local_face)
    IN  IF g.panicked THEN g
        ELSE IF neighbor_coords = NoCoords
        THEN AttachPort(g, coords, local_face, port_type, NoGroup)
        ELSE AttachPort(g, coords, local_face, port_type,
                        FindGroup(g, st, neighbor_coords, Inverse(local_face),
                                  AllFor(coords)).group)

\* WireGraph::neighbor_port
NeighborPort(g, st, coords, global_face, port_type) ==
    LET local_face == GlobalToLocal(BlockRotation(st, coords), global_face)
        neighbor_coords == Step(st, coords, local_face)
    IN  IF g.panicked \/ neighbor_coords = NoCoords THEN g
        ELSE AttachPort(g, coords, local_face, port_type,
                        FindGroup(g, st, neighbor_coords, Inverse(local_face),
                                  AllFor(coords)).group)

\* "Delete the port." at the end of remove_port.
DeletePort(g, port, port_type) ==
    IF g.panicked THEN g
    ELSE IF port_type = Input
    THEN [g EXCEPT !.group_of_input_port = Del(@, port)]
    ELSE [g EXCEPT !.group_of_output_port = Del(@, port)]

\* remove_port that leaves the port in the list of its group.
DetachPortKeepEntry(g, port, port_type, group_id, found) ==
    IF found = NoGroup THEN RemoveGroup(g, group_id) ELSE g

\* The middle of remove_port: delete the group of the port when no group is
\* found through its face, else delete the port from the list of its group.
DetachPort(g, port, port_type, group_id, found) ==
    LET ports_of == IF port_type = Input THEN g.input_ports_of_group
                    ELSE g.output_ports_of_group
    IN  IF found = NoGroup THEN RemoveGroup(g, group_id)
        ELSE IF group_id \notin DOMAIN ports_of THEN Panic(g)
        ELSE IF port \notin DOMAIN ports_of[group_id] THEN Panic(g)
        ELSE IF port_type = Input
        THEN [g EXCEPT !.input_ports_of_group[group_id] = RemoveOne(@, port)]
        ELSE [g EXCEPT !.output_ports_of_group[group_id] = RemoveOne(@, port)]

\* remove_port that never deletes the group of the port.
RemovePortKeepGroup(g, st, coords, face, port_type) ==
    LET local_face == GlobalToLocal(BlockRotation(st, coords), face)
        port == Port(coords, local_face)
        group_of == IF port_type = Input THEN g.group_of_input_port
                    ELSE g.group_of_output_port
    IN  IF g.panicked \/ Step(st, coords, local_face) = NoCoords
           \/ port \notin DOMAIN group_of THEN g
        ELSE DeletePort(DetachPort(g, port, port_type, group_of[port], group_of[port]),
                        port, port_type)

\* WireGraph::remove_port
RemovePort(g, st, coords, face, port_type) ==
    LET local_face == GlobalToLocal(BlockRotation(st, coords), face)
        neighbor_coords == Step(st, coords, local_face)
        port == Port(coords, local_face)
        group_of == IF port_type = Input THEN g.group_of_input_port
                    ELSE g.group_of_output_port
    IN  IF g.panicked \/ neighbor_coords = NoCoords \/ port \notin DOMAIN group_of THEN g
        ELSE DeletePort(
                 DetachPort(g, port, port_type, group_of[port],
                            FindGroup(g, st, neighbor_coords, Inverse(local_face),
                                      AllFor(coords)).group),
                 port, port_type)

\* A fold with && in place of ||.
MergedOnAll(g, group_ids) == \A id \in group_ids : g.groups[id].on

\* The new group is on if any of its neighbors were (the fold of
\* merge_adjacent_groups).
MergedOn(g, group_ids) == \E id \in group_ids : g.groups[id].on

\* Only the ports of the smallest adjacent group are collected.
PortsOfFirstGroup(group_of, group_ids) ==
    {p \in DOMAIN group_of : group_of[p] = Min(group_ids)}

\* The ports of one kind that merge_adjacent_groups rewrites to the new id.
PortsOfGroups(group_of, group_ids) == {p \in DOMAIN group_of : group_of[p] \in group_ids}

\* merge_adjacent_groups that leaves the port -> group map as it was.
RewriteGroupsKept(group_of, group_ids, new_group_id) == group_of

\* The rewritten port -> group map of merge_adjacent_groups.
RewriteGroups(group_of, group_ids, new_group_id) ==
    [p \in DOMAIN group_of |->
        IF group_of[p] \in group_ids THEN new_group_id ELSE group_of[p]]

\* "Remove the old groups." of merge_adjacent_groups.
Without(map, group_ids) == [id \in (DOMAIN map) \ group_ids |-> map[id]]

\* A port list holding each port of the set once.
ListOf(ports) == [p \in ports |-> 1]

\* WireGraph::merge_adjacent_groups
MergeAdjacentGroups(g, group_ids, coords) ==
    AddCompletedGroup(
        [g EXCEPT
            !.next_group_id = NewGroupId(g).next_group_id,
            !.group_of_output_port = RewriteGroups(@, group_ids, g.next_group_id),
            !.group_of_input_port = RewriteGroups(@, group_ids, g.next_group_id),
            !.groups = Without(@, group_ids),
            !.output_ports_of_group = Without(@, group_ids),
            !.input_ports_of_group = Without(@, group_ids)],
        g.next_group_id,
        MergedOn(g, group_ids),
        coords,
        ListOf(PortsOfGroups(g.group_of_output_port, group_ids)),
        ListOf(PortsOfGroups(g.group_of_input_port, group_ids)))

\* The loops of add_logic_block / remove_logic_block over the faces of one
\* port type, from the i-th face on.
RECURSIVE NeighborPorts(_, _, _, _, _, _)
NeighborPorts(g, st, coords, faces, i, port_type) ==
    IF i > Len(faces) THEN g
    ELSE NeighborPorts(NeighborPort(g, st, coords, faces[i], port_type),
                       st, coords, faces, i + 1, port_type)

RECURSIVE RemovePorts(_, _, _, _, _, _)
RemovePorts(g, st, coords, faces, i, port_type) ==
    IF i > Len(faces) THEN g
    ELSE RemovePorts(RemovePort(g, st, coords, faces[i], port_type),
                     st, coords, faces, i + 1, port_type)

\* The group found through one wire face of the block placed at coords.
AdjacentGroup(g, st, coords, wire_face) ==
    LET local_face == GlobalToLocal(BlockRotation(st, coords), wire_face)
        neighbor_coords == Step(st, coords, local_face)
    IN  IF neighbor_coords = NoCoords THEN NoGroup
        ELSE FindGroup(g, st, neighbor_coords, Inverse(local_face), AllFor(coords)).group

\* "Get all adjacent group IDs" of add_logic_block.
AdjacentGroupIds(g, st, block, coords) ==
    {AdjacentGroup(g, st, coords, WireFaces(block)[i]) : i \in 1..Len(WireFaces(block))}
        \ {NoGroup}

\* The match on group_ids.len() that joins one of several groups found.
ConnectWireToOne(g, coords, group_ids) ==
    IF Cardinality(group_ids) = 0 THEN NewGroup(g, FALSE, coords)
    ELSE [g EXCEPT !.groups[Min(group_ids)].recent_wire_coords = coords]

\* The match on group_ids.len() that merges also when one group was found.
ConnectWireAlwaysMerges(g, coords, group_ids) ==
    IF Cardinality(group_ids) = 0 THEN NewGroup(g, FALSE, coords)
    ELSE MergeAdjacentGroups(g, group_ids, coords)

\* The match on group_ids.len() of add_logic_block.  A group id that is not a
\* key of groups fails the unwrap of the second arm and the index and the
\* expect of remove_group in merge_adjacent_groups.
ConnectWire(g, coords, group_ids) ==
    IF Cardinality(group_ids) = 0 THEN NewGroup(g, FALSE, coords)
    ELSE IF ~(group_ids \subseteq DOMAIN g.groups) THEN Panic(g)
    ELSE IF Cardinality(group_ids) = 1
    THEN [g EXCEPT !.groups[CHOOSE id \in group_ids : TRUE].recent_wire_coords = coords]
    ELSE MergeAdjacentGroups(g, group_ids, coords)

\* The wire part of add_logic_block.
AddWireFaces(g, st, block, coords) ==
    IF g.panicked \/ Len(WireFaces(block)) = 0 THEN g
    ELSE ConnectWire(g, coords, AdjacentGroupIds(g, st, block, coords))

\* WireGraph::add_logic_block
AddLogicBlock(g, st, block, coords) ==
    AddWireFaces(
        NeighborPorts(NeighborPorts(g, st, coords, InputFaces(block), 1, Input),
                      st, coords, OutputFaces(block), 1, Output),
        st, block, coords)

\* The new group is kept whether rename_group used it or not.
KeepAlways(r, id) == [g |-> r.g, visited |-> r.visited]

\* The new group is removed again when the search gave it no port.
KeepIfHasPort(r, id) ==
    [g |-> IF r.g.panicked THEN r.g
           ELSE IF r.used /\ (DOMAIN r.g.input_ports_of_group[id]
                                 \cup DOMAIN r.g.output_ports_of_group[id]) # {}
           THEN r.g
           ELSE RemoveGroup(r.g, id),
     visited |-> r.visited]

\* The end of the loop body of remove_logic_block: the new group is removed
\* again when rename_group did not use it.
KeepIfUsed(r, id) ==
    [g |-> IF r.g.panicked \/ r.used THEN r.g ELSE RemoveGroup(r.g, id),
     visited |-> r.visited]

\* "Setting new group IDs" with a visited set that is started again for every
\* neighbour.
RECURSIVE RenameNeighborsForgetful(_, _, _, _, _, _, _)
RenameNeighborsForgetful(g, st, coords, wire_faces, i, visited, on) ==
    IF i > Len(wire_faces) \/ g.panicked THEN g
    ELSE
    LET neighbor_coords == Step(st, coords, wire_faces[i])
        r == IF neighbor_coords = NoCoords THEN [g |-> g, visited |-> visited]
             ELSE KeepIfUsed(RenameGroup(NewGroup(g, on, NoCoords), st, g.next_group_id,
                                         neighbor_coords, Inverse(wire_faces[i]),
                                         AllFor(coords)),
                             g.next_group_id)
    IN  RenameNeighborsForgetful(r.g, st, coords, wire_faces, i + 1, AllFor(coords), on)

\* "Setting new group IDs" of remove_logic_block, from the i-th wire face on.
RECURSIVE RenameNeighbors(_, _, _, _, _, _, _)
RenameNeighbors(g, st, coords, wire_faces, i, visited, on) ==
    IF i > Len(wire_faces) \/ g.panicked THEN g
    ELSE
    LET local_face == GlobalToLocal(BlockRotation(st, coords), wire_faces[i])
        neighbor_coords == Step(st, coords, local_face)
        r == IF neighbor_coords = NoCoords THEN [g |-> g, visited |-> visited]
             ELSE KeepIfUsed(RenameGroup(NewGroup(g, on, NoCoords), st, g.next_group_id,
                                         neighbor_coords, Inverse(local_face), visited),
                             g.next_group_id)
    IN  RenameNeighbors(r.g, st, coords, wire_faces, i + 1, r.visited, on)

\* The old group is removed and its neighbors are left as they are.
SplitGroupNoRename(g, st, block, coords, group_id) ==
    IF group_id = NoGroup THEN Panic(g) ELSE RemoveGroup(g, group_id)

\* The new groups are made with the signal off.
SplitGroupOff(g, st, block, coords, group_id) ==
    IF group_id = NoGroup THEN Panic(g)
    ELSE IF group_id \notin DOMAIN g.groups THEN RemoveGroup(g, group_id)
    ELSE RenameNeighbors(RemoveGroup(g, group_id), st, coords, WireFaces(block), 1,
                         AllFor(coords), FALSE)

\* The wire part of remove_logic_block once the old group id is known.
SplitGroup(g, st, block, coords, group_id) ==
    IF group_id = NoGroup THEN Panic(g)
    ELSE IF group_id \notin DOMAIN g.groups THEN RemoveGroup(g, group_id)
    ELSE RenameNeighbors(RemoveGroup(g, group_id), st, coords, WireFaces(block), 1,
                         AllFor(coords), g.groups[group_id].on)

\* "Old group ID either comes from being the stored wire coordinate for a
\* group, or searching all your neighbors."
OldGroupId(g, st, block, coords, recent) ==
    IF recent # NoGroup THEN recent
    ELSE FindGroupAllFaces(g, st, coords, WireFaces(block), 1, AllFor(coords))

\* The wire part of remove_logic_block.
RemoveWireFaces(g, st, block, coords) ==
    IF g.panicked \/ Len(WireFaces(block)) = 0 THEN g
    ELSE SplitGroup(g, st, block, coords,
                    OldGroupId(g, st, block, coords, RecentGroup(g, coords)))

\* WireGraph::remove_logic_block
RemoveLogicBlock(g, st, block, coords) ==
    RemoveWireFaces(
        RemovePorts(RemovePorts(g, st, coords, InputFaces(block), 1, Input),
                    st, coords, OutputFaces(block), 1, Output),
        st, block, coords)

\* The second half of the listener adding a block without an entry as a wire.
AddUnregisteredAsWire(g, st, new_block, coords) ==
    IF g.panicked \/ new_block = Air THEN g
    ELSE AddLogicBlock(g, st, IF IsLogicBlock(new_block) THEN new_block ELSE "logic_wire",
                       coords)

\* The second half of the listener: "If is now logic block, add to graph."
AddIfLogic(g, st, new_block, coords) ==
    IF g.panicked \/ ~IsLogicBlock(new_block) THEN g
    ELSE AddLogicBlock(g, st, new_block, coords)

\* The first half of the listener: "If was logic block, remove from graph."
RemoveIfLogic(g, st, old_block, coords) ==
    IF IsLogicBlock(old_block) THEN RemoveLogicBlock(g, st, old_block, coords) ELSE g

\* The listener with its two halves in the other order.
BlockChangedAddFirst(g, st, old_block, new_block, coords) ==
    RemoveIfLogic(AddIfLogic(g, st, new_block, coords), st, old_block, coords)

\* logic_block_placed_event_listner, for one BlockChangedEvent: the structure
\* `st` already holds the new block.
BlockChanged(g, st, old_block, new_block, coords) ==
    AddIfLogic(RemoveIfLogic(g, st, old_block, coords), st, new_block, coords)

(***************************************************************************)
(* The structure and its graph as a state machine.                          *)
(***************************************************************************)
Top == "Top"

\* The block coordinates of a structure of the given dimensions.
Cells(w, h, l) == (0..(w - 1)) \X (0..(h - 1)) \X (0..(l - 1))

\* A structure of the given dimensions without blocks, with the default
\* WireGraph (add_default_wire_graph).
EmptyStructure(w, h, l) == [c \in Cells(w, h, l) |-> [block |-> Air, up |-> Top]]

\* No event sent and not yet read.
NoEvents ==
    [ block_changed |-> <<>>,
      queue_logic_input |-> <<>>,
      queue_logic_output |-> <<>>,
      logic_input |-> <<>>,
      logic_output |-> <<>> ]

RECURSIVE Pow2(_)
Pow2(n) == IF n = 0 THEN 1 ELSE 2 * Pow2(n - 1)

(***************************************************************************)
(* structure/structure_iterator.rs: BlockIterator with include_empty.       *)
(***************************************************************************)
\* BlockItrState::Invalid
InvalidIterator == [state |-> "Invalid"]

\* BlockIterator::new(start, end, true, structure) for a structure of w x h x l
\* blocks: the end is clamped to the structure, the start to 0.
BlockIteratorNew(start, end, w, h, l) ==
    LET e == << IF end[1] < w - 1 THEN end[1] ELSE w - 1,
                IF end[2] < h - 1 THEN end[2] ELSE h - 1,
                IF end[3] < l - 1 THEN end[3] ELSE l - 1 >>
        s == [i \in 1..3 |-> IF start[i] > 0 THEN start[i] ELSE 0]
    IN  IF \E i \in 1..3 : e[i] < 0 THEN InvalidIterator
        ELSE IF ~(s[1] < w /\ s[2] < h /\ s[3] < l) THEN InvalidIterator
        ELSE [state |-> "IncludeEmpty", start |-> s, end |-> e, at |-> s]

\* Iterator::next: the item returned (NoCoords for None) and the iterator
\* afterwards.
IteratorNext(it) ==
    IF it.state = "Invalid" THEN [item |-> NoCoords, it |-> it]
    ELSE IF it.at[3] > it.end[3] THEN [item |-> NoCoords, it |-> it]
    ELSE [ item |-> it.at,
           it |-> [it EXCEPT !.at =
                     IF it.at[1] + 1 > it.end[1]
                     THEN IF it.at[2] + 1 > it.end[2]
                          THEN <<it.start[1], it.start[2], it.at[3] + 1>>
                          ELSE <<it.start[1], it.at[2] + 1, it.at[3]>>
                     ELSE <<it.at[1] + 1, it.at[2], it.at[3]>>] ]

\* No call of len has returned since the iterator moved.
NoLen == [called |-> FALSE, overflow_checks |-> FALSE, panicked |-> FALSE, value |-> 0]

\* BlockIterator::len in a build with or without overflow checks: the
\* subtractions and the product are CoordBits wide.
IteratorLen(it, overflow_checks) ==
    IF it.state = "Invalid"
    THEN [called |-> TRUE, overflow_checks |-> overflow_checks, panicked |-> FALSE,
          value |-> 0]
    ELSE LET d == [i \in 1..3 |-> it.end[i] - it.start[i]]
             m == Pow2(CoordBits)
         IN  IF overflow_checks /\ (\/ \E i \in 1..3 : d[i] < 0
                                    \/ d[1] * d[2] >= m
                                    \/ d[1] * d[2] * d[3] >= m)
             THEN [called |-> TRUE, overflow_checks |-> overflow_checks,
                   panicked |-> TRUE, value |-> 0]
             ELSE [called |-> TRUE, overflow_checks |-> overflow_checks,
                   panicked |-> FALSE,
                   value |-> ((((d[1] % m) * (d[2] % m)) % m) * (d[3] % m)) % m]

(***************************************************************************)
(* physics/location.rs: Location and its arithmetic.  A Vec3 is a triple of *)
(* f32; the f32 values of the model are integers.                           *)
(***************************************************************************)
SECTOR_DIMENSIONS == 5000

\* The bits of the significand of an f32.
MantissaBits == 24

\* The distance between neighbouring f32 values around a >= 0, from q up.
RECURSIVE Ulp(_, _)
Ulp(a, q) == IF a < Pow2(MantissaBits) * q THEN q ELSE Ulp(a, 2 * q)

\* The f32 nearest to the integer x, ties to even: the result of `as f32` and
\* of every f32 operation whose exact result is x.
F32(x) ==
    LET a == IF x < 0 THEN -x ELSE x
        q == Ulp(a, 1)
        lo == a - (a % q)
        up == IF 2 * (a % q) < q THEN lo
              ELSE IF 2 * (a % q) > q THEN lo + q
              ELSE IF (lo \div q) % 2 = 0 THEN lo ELSE lo + q
    IN  IF x < 0 THEN -up ELSE up

\* The values of a sector coordinate.
SectorRange == (-Pow2(SectorBits - 1))..(Pow2(SectorBits - 1) - 1)

\* Two's complement wrapping of an integer result to the width of a sector: the
\* outcome of an overflowing operation in a build without overflow checks.
Wrap(x) == ((x + Pow2(SectorBits - 1)) % Pow2(SectorBits)) - Pow2(SectorBits - 1)

\* Location::new
NewLocation(local, sector_x, sector_y, sector_z) ==
    [ local |-> local, sector_x |-> sector_x, sector_y |-> sector_y,
      sector_z |-> sector_z, last_transform_loc |-> local ]

\* Location::default
DefaultLocation == NewLocation(<<0, 0, 0>>, 0, 0, 0)

\* No call of relative_coords_to has returned.
NoRelativeCoords ==
    [called |-> FALSE, overflow_checks |-> FALSE, panicked |-> FALSE, value |-> <<0, 0, 0>>]

\* Location::relative_coords_to in a build with or without overflow checks: a
\* sector subtraction that overflows panics with them and wraps without.
RelativeCoordsTo(this, that, overflow_checks) ==
    LET ds == << that.sector_x - this.sector_x,
                 that.sector_y - this.sector_y,
                 that.sector_z - this.sector_z >>
    IN  IF overflow_checks /\ \E i \in 1..3 : ds[i] \notin SectorRange
        THEN [called |-> TRUE, overflow_checks |-> overflow_checks, panicked |-> TRUE,
              value |-> <<0, 0, 0>>]
        ELSE [called |-> TRUE, overflow_checks |-> overflow_checks, panicked |-> FALSE,
              value |-> [i \in 1..3 |->
                           F32(F32(SECTOR_DIMENSIONS * F32(Wrap(ds[i])))
                               + F32(that.local[i] - this.local[i]))]]

\* No `location += rhs` has run.
NoAddAssign ==
    [called |-> FALSE, overflow_checks |-> FALSE, panicked |-> FALSE, rhs |-> <<0, 0, 0>>]

\* (a / b) as i64: the quotient truncated towards zero.  For the values of the
\* model the f32 quotient has the integer part of the exact quotient.
TruncDiv(a, b) == IF a >= 0 THEN a \div b ELSE -((-a) \div b)

\* The sector coordinate of an axis.
SectorOf(this, i) == <<this.sector_x, this.sector_y, this.sector_z>>[i]

\* One axis of add_assign, for the local coordinate after `self.local += rhs`:
\* `local += over as f32 * SECTOR_DIMENSIONS; sector += over`.
AddAssignAxis(local, sector, overflow_checks) ==
    LET over == TruncDiv(local, SECTOR_DIMENSIONS)
    IN  IF over = 0 THEN [local |-> local, sector |-> sector, panicked |-> FALSE]
        ELSE [local |-> F32(local + F32(F32(over) * SECTOR_DIMENSIONS)),
              sector |-> Wrap(sector + over),
              panicked |-> overflow_checks /\ (sector + over) \notin SectorRange]

\* AddAssign<Vec3> for &mut Location: [loc |-> the Location after the call,
\* panicked |-> a sector addition overflowed in a build with overflow checks].
\* The axes are handled in the order x, y, z and a panic leaves the later axes
\* as `self.local += rhs` made them.
AddAssign(this, rhs, overflow_checks) ==
    LET sum == [i \in 1..3 |-> F32(this.local[i] + rhs[i])]
        axis == [i \in 1..3 |-> AddAssignAxis(sum[i], SectorOf(this, i), overflow_checks)]
        done == [i \in 1..3 |-> \A j \in 1..i : ~axis[j].panicked]
        local == [i \in 1..3 |-> IF i = 1 \/ done[i - 1] THEN axis[i].local ELSE sum[i]]
        sector == [i \in 1..3 |-> IF done[i] THEN axis[i].sector ELSE SectorOf(this, i)]
    IN  [loc |-> [this EXCEPT !.local = local, !.sector_x = sector[1],
                              !.sector_y = sector[2], !.sector_z = sector[3]],
         panicked |-> ~done[3]]

\* The scheduler before its first pass: empty queues (init_resource), no events.
Quiet ==
    /\ logic_data = EmptyMap
    /\ events = NoEvents
    /\ logic_input_event_queue = <<>>
    /\ logic_output_event_queue = <<>>
    /\ phase = 1
    /\ tick = 0
    /\ ran = <<>>
    /\ written = 0

\* No Location and no BlockIterator is in use.
NoUnits ==
    /\ location = DefaultLocation
    /\ other = DefaultLocation
    /\ relative_coords = NoRelativeCoords
    /\ add_assign = NoAddAssign
    /\ block_iterator = InvalidIterator
    /\ len = NoLen

Idle == Quiet /\ NoUnits

Init ==
    /\ structure = EmptyStructure(GridX, GridY, 1)
    /\ wire_graph = EmptyGraph
    /\ Idle

\* The structure and the graph after a block change, unless the change would
\* take next_group_id beyond the bound.
Changed(st, g, max_group_id) ==
    /\ g.next_group_id <= max_group_id
    /\ structure' = st
    /\ wire_graph' = g
    /\ UNCHANGED tick_vars

\* FullStructure::set_block_at followed by the listener's handling of the
\* BlockChangedEvent it sends.
SetBlockAt(coords, block, block_up, max_group_id) ==
    /\ ~wire_graph.panicked
    /\ BlockAt(structure, coords) # block
    /\ Changed([structure EXCEPT ![coords] = [block |-> block, up |-> block_up]],
               BlockChanged(wire_graph,
                            [structure EXCEPT ![coords] = [block |-> block, up |-> block_up]],
                            BlockAt(structure, coords), block, coords),
               max_group_id)

Next ==
    \E coords \in DOMAIN structure, block \in BlockTypes :
        SetBlockAt(coords, block, Top, MaxGroupId)

Spec == Init /\ [][Next]_vars

(***************************************************************************)
(* A larger structure on which wire networks are built, driven, merged and  *)
(* split.                                                                   *)
(***************************************************************************)
\* LogicDriver::update_producer: the output port writes its block's signal to
\* the group it belongs to.
UpdateProducer(g, port, signal) ==
    IF port \in DOMAIN g.group_of_output_port
       /\ g.group_of_output_port[port] \in DOMAIN g.groups
    THEN [g EXCEPT !.groups[g.group_of_output_port[port]].on = (signal # 0)]
    ELSE g

\* The loop of default_logic_block_output over the output faces of the block,
\* from the i-th face on.
RECURSIVE UpdateProducers(_, _, _, _, _, _)
UpdateProducers(g, st, coords, faces, i, signal) ==
    IF i > Len(faces) THEN g
    ELSE UpdateProducers(
             UpdateProducer(g, Port(coords, GlobalToLocal(BlockRotation(st, coords), faces[i])),
                            signal),
             st, coords, faces, i + 1, signal)

\* The graph after an output event, when it differs from the graph before.
Produced(g) ==
    /\ g # wire_graph
    /\ wire_graph' = g
    /\ UNCHANGED structure
    /\ UNCHANGED tick_vars

\* default_logic_block_output for one LogicOutputEvent of a block holding
\* `signal`.
LogicBlockOutput(coords, signal) ==
    /\ ~wire_graph.panicked
    /\ IsLogicBlock(BlockAt(structure, coords))
    /\ Len(OutputFaces(BlockAt(structure, coords))) > 0
    /\ Produced(UpdateProducers(wire_graph, structure, coords,
                                OutputFaces(BlockAt(structure, coords)), 1, signal))

NetInit ==
    /\ structure = EmptyStructure(NetX, NetY, 1)
    /\ wire_graph = EmptyGraph
    /\ Idle

\* Wires and output blocks are placed, replaced and removed.
NetNext ==
    \E coords \in DOMAIN structure, block \in NetBlocks :
        SetBlockAt(coords, block, Top, NetMaxGroupId)

NetSpec == NetInit /\ [][NetNext]_vars

\* A block is placed at a coordinate that holds air.
PlaceBlockAt(coords, block, block_up, max_group_id) ==
    /\ BlockAt(structure, coords) = Air
    /\ SetBlockAt(coords, block, block_up, max_group_id)

\* A structure that is built up, block by block, while its output blocks
\* drive their groups.
SigNext ==
    \/ \E coords \in DOMAIN structure, block \in NetBlocks :
          PlaceBlockAt(coords, block, Top, SigMaxGroupId)
    \/ \E coords \in DOMAIN structure, signal \in {0, 1} :
          LogicBlockOutput(coords, signal)

SigSpec == NetInit /\ [][SigNext]_vars

StoneInit ==
    /\ structure = EmptyStructure(StoneX, 1, 1)
    /\ wire_graph = EmptyGraph
    /\ Idle

\* Blocks with and without a logic entry are placed, replaced and removed in
\* a row of cells.
StoneNext ==
    \E coords \in DOMAIN structure, block \in StoneBlocks :
        SetBlockAt(coords, block, Top, StoneMaxGroupId)

StoneSpec == StoneInit /\ [][StoneNext]_vars

(***************************************************************************)
(* The tick scheduler of cosmos_core/src/logic/mod.rs and the systems of    *)
(* and_gate.rs, on a structure that is built while the scheduler runs.      *)
(***************************************************************************)
\* The chain with Produce ahead of Consume.
LogicSystemSetProduceFirst ==
    <<"EditLogicGraph", "QueueConsumers", "QueueProducers", "SendQueues", "Produce", "Consume">>

\* configure_sets((EditLogicGraph, QueueConsumers, QueueProducers,
\* (SendQueues, Consume, Produce).chain().run_if(on_timer(..))).chain()): the
\* sets in the order in which their systems run in one pass.
LogicSystemSet ==
    <<"EditLogicGraph", "QueueConsumers", "QueueProducers", "SendQueues", "Consume", "Produce">>

\* The index of the first set under run_if(on_timer(..)).
FirstTimed == 4

\* The logic tick that is running when the systems of the next set run.
Now == IF phase = FirstTimed THEN tick + 1 ELSE tick

\* Systems that run whatever set the chain has reached.
RunUnchained(set) ==
    /\ phase = FirstTimed => tick < MaxTick
    /\ phase' = 1 + (phase % Len(LogicSystemSet))
    /\ tick' = Now
    /\ ran' = IF phase = 1 THEN <<set>> ELSE Append(ran, set)
    /\ UNCHANGED unit_vars

\* The systems of `set` run: it is the next set of the pass and, for the first
\* timed set, the timer has elapsed, which begins a logic tick.
Run(set) ==
    /\ LogicSystemSet[phase] = set
    /\ phase = FirstTimed => tick < MaxTick
    /\ phase' = 1 + (phase % Len(LogicSystemSet))
    /\ tick' = Now
    /\ ran' = IF phase = 1 THEN <<set>> ELSE Append(ran, set)
    /\ UNCHANGED unit_vars

\* SendQueues outside the run condition: the queues are sent in a pass whose
\* timer has not elapsed.
TimerNotElapsedSendsQueues ==
    /\ phase = FirstTimed
    /\ phase' = 1
    /\ events' = [events EXCEPT !.logic_input = @ \o logic_input_event_queue,
                                !.logic_output = @ \o logic_output_event_queue]
    /\ logic_input_event_queue' = <<>>
    /\ logic_output_event_queue' = <<>>
    /\ UNCHANGED <<structure, wire_graph, logic_data, tick, ran, written, unit_vars>>

\* on_timer is false in this pass: the timed sets are skipped and the pass ends.
TimerNotElapsed ==
    /\ phase = FirstTimed
    /\ phase' = 1
    /\ UNCHANGED <<structure, wire_graph, logic_data, events, logic_input_event_queue,
                   logic_output_event_queue, tick, ran, written, unit_vars>>

\* An event for a block, with the system set that sent it and the tick then.
LogicEvent(coords, by, now) == [block |-> coords, by |-> by, tick |-> now]

\* The blocks placed while the scheduler runs: two signal sources on the two
\* input sides of an and gate, a light in front of its output, and a wire
\* between the first source and the light.
TickPlacements ==
    { <<(<<0, 0, 0>>), "logic_on">>,
      <<(<<1, 0, 0>>), "and_gate">>,
      <<(<<2, 0, 0>>), "logic_on">>,
      <<(<<1, 0, 1>>), "light">>,
      <<(<<0, 0, 1>>), "logic_wire">> }

TickInit ==
    /\ structure = EmptyStructure(TickX, 1, TickZ)
    /\ wire_graph = EmptyGraph
    /\ Idle

\* FullStructure::set_block_at: the block is set and a BlockChangedEvent sent.
SendBlockChanged(coords, block) ==
    /\ BlockAt(structure, coords) = Air
    /\ BlockAt(structure, coords) # block
    /\ structure' = [structure EXCEPT ![coords] = [block |-> block, up |-> Top]]
    /\ events' = [events EXCEPT !.block_changed =
                     Append(@, [block |-> coords,
                                old_block |-> BlockAt(structure, coords),
                                new_block |-> block])]
    /\ UNCHANGED <<wire_graph, logic_data, logic_input_event_queue,
                   logic_output_event_queue, phase, tick, ran, written, unit_vars>>

\* The signal a logic block holds when it is placed.
InitialSignal(block) == IF block = "logic_on" THEN 1 ELSE 0

\* The events LogicDriver::add_logic_block queues for the block it adds.
AddedEvents(block, coords, by, now, faces) ==
    IF ~IsLogicBlock(block) THEN <<>>
    ELSE IF Len(FacesWith(block, faces)) > 0 THEN <<LogicEvent(coords, by, now)>>
    ELSE <<>>

\* The loop body that inserts the data of a placed block only where none is
\* stored yet.
PlacedEventKeepsData(acc, st, ev, now) ==
    [ g |-> BlockChanged(acc.g, st, ev.old_block, ev.new_block, ev.block),
      data |-> IF IsLogicBlock(ev.new_block) /\ ev.block \notin DOMAIN acc.data
               THEN Put(acc.data, ev.block, InitialSignal(ev.new_block))
               ELSE acc.data,
      outputs |-> acc.outputs
                    \o AddedEvents(ev.new_block, ev.block, "EditLogicGraph", now, Output),
      inputs |-> acc.inputs
                    \o AddedEvents(ev.new_block, ev.block, "EditLogicGraph", now, Input) ]

\* The body of the loop of logic_block_placed_event_listener for one event.
PlacedEvent(acc, st, ev, now) ==
    [ g |-> BlockChanged(acc.g, st, ev.old_block, ev.new_block, ev.block),
      data |-> IF IsLogicBlock(ev.new_block)
               THEN Put(acc.data, ev.block, InitialSignal(ev.new_block))
               ELSE acc.data,
      outputs |-> acc.outputs
                    \o AddedEvents(ev.new_block, ev.block, "EditLogicGraph", now, Output),
      inputs |-> acc.inputs
                    \o AddedEvents(ev.new_block, ev.block, "EditLogicGraph", now, Input) ]

\* logic_block_placed_event_listener, from the i-th BlockChangedEvent on.
RECURSIVE PlacedEvents(_, _, _, _, _)
PlacedEvents(acc, st, evs, i, now) ==
    IF i > Len(evs) THEN acc
    ELSE PlacedEvents(PlacedEvent(acc, st, evs[i], now), st, evs, i + 1, now)

Edited(r) ==
    /\ wire_graph' = r.g
    /\ logic_data' = r.data
    /\ events' = [events EXCEPT !.block_changed = <<>>,
                                !.queue_logic_output = @ \o r.outputs,
                                !.queue_logic_input = @ \o r.inputs]
    /\ UNCHANGED <<structure, logic_input_event_queue, logic_output_event_queue, written>>

\* The system of the set EditLogicGraph.
EditLogicGraph ==
    /\ Run("EditLogicGraph")
    /\ Edited(PlacedEvents([g |-> wire_graph, data |-> logic_data,
                            outputs |-> <<>>, inputs |-> <<>>],
                           structure, events.block_changed, 1, Now))

\* queue_logic_consumers that pushes to the front of the queue.
QueueLogicConsumersFront ==
    /\ Run("QueueConsumers")
    /\ logic_input_event_queue' = events.queue_logic_input \o logic_input_event_queue
    /\ events' = [events EXCEPT !.queue_logic_input = <<>>]
    /\ UNCHANGED <<structure, wire_graph, logic_data, logic_output_event_queue, written>>

\* queue_logic_consumers
QueueLogicConsumers ==
    /\ Run("QueueConsumers")
    /\ logic_input_event_queue' = logic_input_event_queue \o events.queue_logic_input
    /\ events' = [events EXCEPT !.queue_logic_input = <<>>]
    /\ UNCHANGED <<structure, wire_graph, logic_data, logic_output_event_queue, written>>

\* queue_logic_producers
QueueLogicProducers ==
    /\ Run("QueueProducers")
    /\ logic_output_event_queue' = logic_output_event_queue \o events.queue_logic_output
    /\ events' = [events EXCEPT !.queue_logic_output = <<>>]
    /\ UNCHANGED <<structure, wire_graph, logic_data, logic_input_event_queue, written>>

\* send_queued_logic_events that drains both queues and sends the inputs only.
SendQueuedLogicEventsInputsOnly ==
    /\ Run("SendQueues")
    /\ events' = [events EXCEPT !.logic_input = @ \o logic_input_event_queue]
    /\ logic_input_event_queue' = <<>>
    /\ logic_output_event_queue' = <<>>
    /\ UNCHANGED <<structure, wire_graph, logic_data, written>>

\* send_queued_logic_events that sends the queued events and keeps them queued.
SendQueuedLogicEventsKeepsQueues ==
    /\ Run("SendQueues")
    /\ events' = [events EXCEPT !.logic_input = @ \o logic_input_event_queue,
                                !.logic_output = @ \o logic_output_event_queue]
    /\ UNCHANGED <<structure, wire_graph, logic_data, logic_input_event_queue,
                   logic_output_event_queue, written>>

\* send_queued_logic_events
SendQueuedLogicEvents ==
    /\ Run("SendQueues")
    /\ events' = [events EXCEPT !.logic_input = @ \o logic_input_event_queue,
                                !.logic_output = @ \o logic_output_event_queue]
    /\ logic_input_event_queue' = <<>>
    /\ logic_output_event_queue' = <<>>
    /\ UNCHANGED <<structure, wire_graph, logic_data, written>>

\* LogicDriver::global_port_input: the signal of the group of the input port
\* on the given face, 0 without such a port.
GlobalPortInput(g, coords, rotation, face) ==
    IF Port(coords, GlobalToLocal(rotation, face)) \in DOMAIN g.group_of_input_port
    THEN IF g.groups[g.group_of_input_port[Port(coords, GlobalToLocal(rotation, face))]].on
         THEN 1 ELSE 0
    ELSE 0

\* An or gate in the place of the and gate: left || right.
AndGateStateOr(g, st, coords) ==
    IF GlobalPortInput(g, coords, BlockRotation(st, coords), 1) # 0
       \/ GlobalPortInput(g, coords, BlockRotation(st, coords), 0) # 0
    THEN 1 ELSE 0

\* The new state of an and gate: left && right.
AndGateState(g, st, coords) ==
    IF GlobalPortInput(g, coords, BlockRotation(st, coords), 1) # 0
       /\ GlobalPortInput(g, coords, BlockRotation(st, coords), 0) # 0
    THEN 1 ELSE 0

\* The body of the loop of and_gate_input_event_listener for one event.
AndGateInput(acc, g, st, ev, new_state, now) ==
    IF BlockAt(st, ev.block) # "and_gate" \/ ev.block \notin DOMAIN acc.data THEN acc
    ELSE IF acc.data[ev.block] = new_state THEN acc
    ELSE [data |-> [acc.data EXCEPT ![ev.block] = new_state],
          outputs |-> Append(acc.outputs, LogicEvent(ev.block, "Consume", now))]

\* and_gate_input_event_listener, from the i-th LogicInputEvent on.
RECURSIVE AndGateInputs(_, _, _, _, _, _)
AndGateInputs(acc, g, st, evs, i, now) ==
    IF i > Len(evs) THEN acc
    ELSE AndGateInputs(AndGateInput(acc, g, st, evs[i],
                                    AndGateState(g, st, evs[i].block), now),
                       g, st, evs, i + 1, now)

Consumed(r) ==
    /\ logic_data' = r.data
    /\ events' = [events EXCEPT !.logic_input = <<>>,
                                !.logic_output = @ \o r.outputs]
    /\ UNCHANGED <<structure, wire_graph, logic_input_event_queue,
                   logic_output_event_queue, written>>

\* The systems of the set Consume.
Consume ==
    /\ Run("Consume")
    /\ Consumed(AndGateInputs([data |-> logic_data, outputs |-> <<>>],
                              wire_graph, structure, events.logic_input, 1, Now))

\* The ports of a set in a fixed order.
RECURSIVE PortSeq(_)
PortSeq(ports) ==
    IF ports = {} THEN <<>>
    ELSE LET p == CHOOSE q \in ports :
                     \A o \in ports :
                         \/ q[1][1] < o[1][1]
                         \/ q[1][1] = o[1][1] /\ q[1][3] < o[1][3]
                         \/ q[1][1] = o[1][1] /\ q[1][3] = o[1][3] /\ q[1][2] < o[1][2]
                         \/ q[1] = o[1] /\ q[2] <= o[2]
         IN  <<p>> \o PortSeq(ports \ {p})

\* The input events LogicDriver::update_producer sends: one for the block of
\* every input port of the group of the output port, when the write changes
\* the signal of the group.
Notified(g, port, signal, by, now) ==
    IF port \notin DOMAIN g.group_of_output_port THEN <<>>
    ELSE IF g.group_of_output_port[port] \notin DOMAIN g.groups THEN <<>>
    ELSE IF g.groups[g.group_of_output_port[port]].on = (signal # 0) THEN <<>>
    ELSE [i \in 1..Cardinality(DOMAIN g.input_ports_of_group[g.group_of_output_port[port]]) |->
            LogicEvent(PortSeq(DOMAIN g.input_ports_of_group[g.group_of_output_port[port]])[i][1],
                       by, now)]

\* One call of update_producer by a Produce system whose event writer is `to`.
ProducerUpdated(acc, port, signal, to, now) ==
    [ g |-> UpdateProducer(acc.g, port, signal),
      direct |-> IF to = "logic_input"
                 THEN acc.direct \o Notified(acc.g, port, signal, "Produce", now)
                 ELSE acc.direct,
      queued |-> IF to = "queue_logic_input"
                 THEN acc.queued \o Notified(acc.g, port, signal, "Produce", now)
                 ELSE acc.queued,
      wrote |-> acc.wrote \/ port \in DOMAIN acc.g.group_of_output_port ]

\* The loop of default_logic_block_output over the output faces, from the i-th.
RECURSIVE OutputFacesUpdated(_, _, _, _, _, _, _)
OutputFacesUpdated(acc, st, coords, faces, i, signal, now) ==
    IF i > Len(faces) THEN acc
    ELSE OutputFacesUpdated(
             ProducerUpdated(acc, Port(coords, GlobalToLocal(BlockRotation(st, coords), faces[i])),
                             signal, "queue_logic_input", now),
             st, coords, faces, i + 1, signal, now)

\* default_logic_block_output(block_name, ..), from the i-th LogicOutputEvent on.
RECURSIVE DefaultLogicBlockOutput(_, _, _, _, _, _, _)
DefaultLogicBlockOutput(block_name, acc, st, data, evs, i, now) ==
    IF i > Len(evs) THEN acc
    ELSE IF BlockAt(st, evs[i].block) # block_name \/ evs[i].block \notin DOMAIN data
    THEN DefaultLogicBlockOutput(block_name, acc, st, data, evs, i + 1, now)
    ELSE DefaultLogicBlockOutput(
             block_name,
             OutputFacesUpdated(acc, st, evs[i].block, OutputFaces(block_name), 1,
                                data[evs[i].block], now),
             st, data, evs, i + 1, now)

\* and_gate_output_event_listener, from the i-th LogicOutputEvent on: the port
\* is the local front of the block.
RECURSIVE AndGateOutputs(_, _, _, _, _, _)
AndGateOutputs(acc, st, data, evs, i, now) ==
    IF i > Len(evs) THEN acc
    ELSE IF BlockAt(st, evs[i].block) # "and_gate" \/ evs[i].block \notin DOMAIN data
    THEN AndGateOutputs(acc, st, data, evs, i + 1, now)
    ELSE AndGateOutputs(
             ProducerUpdated(acc, Port(evs[i].block,
                                       GlobalToLocal(BlockRotation(st, evs[i].block), 4)),
                             data[evs[i].block], "logic_input", now),
             st, data, evs, i + 1, now)

\* The two systems of the set Produce, in one of the two orders.
ProduceSystems(acc, st, data, evs, now, and_gate_first) ==
    IF and_gate_first
    THEN DefaultLogicBlockOutput("logic_on", AndGateOutputs(acc, st, data, evs, 1, now),
                                 st, data, evs, 1, now)
    ELSE AndGateOutputs(DefaultLogicBlockOutput("logic_on", acc, st, data, evs, 1, now),
                        st, data, evs, 1, now)

ProduceDone(r, now) ==
    /\ wire_graph' = r.g
    /\ events' = [events EXCEPT !.logic_output = <<>>,
                                !.logic_input = @ \o r.direct,
                                !.queue_logic_input = @ \o r.queued]
    /\ written' = IF r.wrote THEN now ELSE written
    /\ UNCHANGED <<structure, logic_data, logic_input_event_queue, logic_output_event_queue>>

\* The systems of the set Produce.
Produce ==
    /\ Run("Produce")
    /\ \E and_gate_first \in BOOLEAN :
          ProduceDone(ProduceSystems([g |-> wire_graph, direct |-> <<>>, queued |-> <<>>,
                                    wrote |-> FALSE],
                                   structure, logic_data, events.logic_output, Now,
                                   and_gate_first),
                    Now)

TickNext ==
    \/ \E placement \in TickPlacements : SendBlockChanged(placement[1], placement[2])
    \/ EditLogicGraph
    \/ QueueLogicConsumers
    \/ QueueLogicProducers
    \/ TimerNotElapsed
    \/ SendQueuedLogicEvents
    \/ Consume
    \/ Produce

TickSpec == TickInit /\ [][TickNext]_vars

\* The position of the scheduler: the set its pass has reached, the tick and
\* the sets the pass has run.
pass == <<phase, tick, ran>>

\* The schedule runs in every frame, so the systems of the set a pass has
\* reached do run; the timer keeps elapsing as long as there is a tick to run.
TickFairness ==
    /\ WF_pass(Run("EditLogicGraph"))
    /\ WF_pass(Run("QueueConsumers"))
    /\ WF_pass(Run("QueueProducers"))
    /\ SF_pass(Run("SendQueues"))
    /\ WF_pass(Run("Consume"))
    /\ WF_pass(Run("Produce"))

TickLiveSpec == TickSpec /\ TickFairness

(***************************************************************************)
(* A loaded structure whose graph is rebuilt by add_logic_block for each of *)
(* its logic blocks, in any order.                                          *)
(***************************************************************************)
\* The structures a loaded structure can be.
LoadedStructures == [Cells(ReplayX, ReplayY, 1) -> [block : BlockTypes, up : {Top}]]

ReplayInit ==
    /\ structure \in LoadedStructures
    /\ wire_graph = EmptyGraph
    /\ Idle

\* The second half of the listener for a block of the loaded structure that
\* has not been added yet: add_logic_block, then the block's logic data.
Replay(coords) ==
    /\ IsLogicBlock(BlockAt(structure, coords))
    /\ coords \notin DOMAIN logic_data
    /\ wire_graph' = AddIfLogic(wire_graph, structure, BlockAt(structure, coords), coords)
    /\ logic_data' = Put(logic_data, coords, InitialSignal(BlockAt(structure, coords)))
    /\ UNCHANGED <<structure, events, logic_input_event_queue, logic_output_event_queue,
                   phase, tick, ran, written, unit_vars>>

ReplayNext == \E coords \in DOMAIN structure : Replay(coords)

ReplaySpec == ReplayInit /\ [][ReplayNext]_vars

(***************************************************************************)
(* The scheduler over a row of blocks that are placed, replaced and removed *)
(* while it runs.                                                           *)
(***************************************************************************)
\* The blocks set in GateSpec.
GateBlocks == {Air, "logic_on", "and_gate"}

GateInit ==
    /\ structure = EmptyStructure(GateX, 1, 1)
    /\ wire_graph = EmptyGraph
    /\ Idle

\* FullStructure::set_block_at for any change of a block: the block is set and
\* a BlockChangedEvent sent.  Blocks are changed while few events wait in the
\* queues, which keeps the queues bounded.
GateSetBlockAt(coords, block) ==
    /\ Len(events.block_changed) < MaxPending
    /\ Len(events.queue_logic_input) + Len(logic_input_event_queue) < MaxQueued
    /\ Len(events.queue_logic_output) + Len(logic_output_event_queue) < MaxQueued
    /\ BlockAt(structure, coords) # block
    /\ structure' = [structure EXCEPT ![coords] = [block |-> block, up |-> Top]]
    /\ events' = [events EXCEPT !.block_changed =
                     Append(@, [block |-> coords,
                                old_block |-> BlockAt(structure, coords),
                                new_block |-> block])]
    /\ UNCHANGED <<wire_graph, logic_data, logic_input_event_queue,
                   logic_output_event_queue, phase, tick, ran, written, unit_vars>>

\* The system of the set EditLogicGraph, while group ids last.
GateEditLogicGraph ==
    /\ EditLogicGraph
    /\ wire_graph'.next_group_id <= GateMaxGroupId

\* No system runs once the listener has panicked.
Alive(system) == ~wire_graph.panicked /\ system

GateNext ==
    \/ \E coords \in Cells(GateX, 1, 1), block \in GateBlocks :
          Alive(GateSetBlockAt(coords, block))
    \/ Alive(GateEditLogicGraph)
    \/ Alive(QueueLogicConsumers)
    \/ Alive(QueueLogicProducers)
    \/ Alive(TimerNotElapsed)
    \/ Alive(SendQueuedLogicEvents)
    \/ Alive(Consume)
    \/ Alive(Produce)

GateSpec == GateInit /\ [][GateNext]_vars

(***************************************************************************)
(* Two structures whose block changes of one pass are handled by one run of *)
(* the listener.  `structure` and `wire_graph` hold one value per structure *)
(* entity here.                                                             *)
(***************************************************************************)
\* The structure entities of the world.
Entities == {"ship", "station"}

\* The blocks set in BatchSpec.
BatchBlocks == {Air, "logic_wire"}

\* An expect of the graph code has failed in a system: the panic unwinds the
\* system and the run of the schedule.
AppPanicked(graphs) == \E entity \in DOMAIN graphs : graphs[entity].panicked

BatchInit ==
    /\ structure = [entity \in Entities |-> EmptyStructure(BatchX, 1, 1)]
    /\ wire_graph = [entity \in Entities |-> EmptyGraph]
    /\ Idle

\* FullStructure::set_block_at on one of the structures: the block is set and
\* the BlockChangedEvent is sent, to be read by the listener's next run.
BatchSetBlockAt(entity, coords, block) ==
    /\ Len(events.block_changed) < MaxBatch
    /\ BlockAt(structure[entity], coords) # block
    /\ structure' = [structure EXCEPT ![entity][coords] = [block |-> block, up |-> Top]]
    /\ events' = [events EXCEPT !.block_changed =
                     Append(@, [structure_entity |-> entity,
                                block |-> coords,
                                old_block |-> BlockAt(structure[entity], coords),
                                new_block |-> block])]
    /\ UNCHANGED <<wire_graph, logic_data, logic_input_event_queue,
                   logic_output_event_queue, phase, tick, ran, written, unit_vars>>

\* The loop of the listener over the events of all structures, from the i-th
\* event on: a failed expect ends the loop.
RECURSIVE BatchChanged(_, _, _, _)
BatchChanged(graphs, sts, evs, i) ==
    IF i > Len(evs) \/ AppPanicked(graphs) THEN graphs
    ELSE BatchChanged(
             [graphs EXCEPT ![evs[i].structure_entity] =
                 BlockChanged(@, sts[evs[i].structure_entity], evs[i].old_block,
                              evs[i].new_block, evs[i].block)],
             sts, evs, i + 1)

BatchEdited(graphs) ==
    /\ \A entity \in DOMAIN graphs : graphs[entity].next_group_id <= BatchMaxGroupId
    /\ wire_graph' = graphs
    /\ events' = [events EXCEPT !.block_changed = <<>>]
    /\ UNCHANGED <<structure, logic_data, logic_input_event_queue,
                   logic_output_event_queue, written>>

\* The system of the set EditLogicGraph, for the events of all structures.
BatchEditLogicGraph ==
    /\ Run("EditLogicGraph")
    /\ BatchEdited(BatchChanged(wire_graph, structure, events.block_changed, 1))

\* No system runs once a system has panicked.
StillRunning(system) == ~AppPanicked(wire_graph) /\ system

BatchNext ==
    \/ \E entity \in Entities, coords \in Cells(BatchX, 1, 1), block \in BatchBlocks :
          StillRunning(BatchSetBlockAt(entity, coords, block))
    \/ StillRunning(BatchEditLogicGraph)
    \/ StillRunning(QueueLogicConsumers)
    \/ StillRunning(QueueLogicProducers)
    \/ StillRunning(TimerNotElapsed)
    \/ StillRunning(SendQueuedLogicEvents)
    \/ StillRunning(Consume)
    \/ StillRunning(Produce)

BatchSpec == BatchInit /\ [][BatchNext]_vars

(***************************************************************************)
(* Calls on Locations.                                                      *)
(***************************************************************************)
\* The Locations of LocationSpec: every sector, with different signs on the
\* axes, and locals next to the origin and at the end of the exact integers of
\* f32.
Locations ==
    { NewLocation(<<l, -l, l>>, s, -1 - s, s) :
        l \in {-15, 15, Pow2(MantissaBits)}, s \in SectorRange }

LocationInit ==
    /\ structure = EmptyStructure(1, 1, 1)
    /\ wire_graph = EmptyGraph
    /\ Quiet
    /\ location \in Locations
    /\ other \in Locations
    /\ relative_coords = NoRelativeCoords
    /\ add_assign = NoAddAssign
    /\ block_iterator = InvalidIterator
    /\ len = NoLen

\* location.relative_coords_to(&other)
RelativeCoordsToCalled ==
    /\ ~relative_coords.called
    /\ \E overflow_checks \in BOOLEAN :
          relative_coords' = RelativeCoordsTo(location, other, overflow_checks)
    /\ UNCHANGED <<structure, wire_graph, logic_data, events, logic_input_event_queue,
                   logic_output_event_queue, phase, tick, ran, written, location, other,
                   add_assign, block_iterator, len>>

LocationNext == RelativeCoordsToCalled

LocationSpec == LocationInit /\ [][LocationNext]_vars

(***************************************************************************)
(* A displacement added to a Location.                                      *)
(***************************************************************************)
\* The Locations of AddSpec: locals at the centre of a sector and towards its
\* end, sectors around the origin and at the end of the sector range.
AddLocations ==
    { NewLocation(<<l, -l, 0>>, s, 0, -s) :
        l \in {0, 1500, 4000}, s \in {-1, 0, Pow2(SectorBits - 1) - 1} }

\* The displacements added: within a sector and beyond one.
Displacements ==
    {-SECTOR_DIMENSIONS - 1000, -2000, 0, 2000, SECTOR_DIMENSIONS + 1000}
        \X {-2000, 0, 2000} \X {0, SECTOR_DIMENSIONS + 1000}

AddInit ==
    /\ structure = EmptyStructure(1, 1, 1)
    /\ wire_graph = EmptyGraph
    /\ Quiet
    /\ location \in AddLocations
    /\ other = DefaultLocation
    /\ relative_coords = NoRelativeCoords
    /\ add_assign = NoAddAssign
    /\ block_iterator = InvalidIterator
    /\ len = NoLen

\* location += rhs
AddAssignCalled ==
    /\ ~add_assign.called
    /\ \E rhs \in Displacements, overflow_checks \in BOOLEAN :
          /\ location' = AddAssign(location, rhs, overflow_checks).loc
          /\ add_assign' = [called |-> TRUE, overflow_checks |-> overflow_checks,
                            panicked |-> AddAssign(location, rhs, overflow_checks).panicked,
                            rhs |-> rhs]
    /\ UNCHANGED <<structure, wire_graph, logic_data, events, logic_input_event_queue,
                   logic_output_event_queue, phase, tick, ran, written, other,
                   relative_coords, block_iterator, len>>

AddNext == AddAssignCalled

AddSpec == AddInit /\ [][AddNext]_vars

(***************************************************************************)
(* Calls on a BlockIterator.                                                *)
(***************************************************************************)
IterInit ==
    /\ structure = EmptyStructure(IterSize, IterSize, IterSize)
    /\ wire_graph = EmptyGraph
    /\ Quiet
    /\ location = DefaultLocation
    /\ other = DefaultLocation
    /\ relative_coords = NoRelativeCoords
    /\ add_assign = NoAddAssign
    /\ \E start \in (-1..IterSize) \X (-1..IterSize) \X (-1..IterSize),
          end \in (-1..IterSize) \X (-1..IterSize) \X (-1..IterSize) :
          block_iterator = BlockIteratorNew(start, end, IterSize, IterSize, IterSize)
    /\ len = NoLen

\* block_iterator.next() returning an item
NextCalled ==
    /\ IteratorNext(block_iterator).item # NoCoords
    /\ block_iterator' = IteratorNext(block_iterator).it
    /\ len' = NoLen
    /\ UNCHANGED <<structure, wire_graph, logic_data, events, logic_input_event_queue,
                   logic_output_event_queue, phase, tick, ran, written, location, other,
                   relative_coords, add_assign>>

\* block_iterator.len()
LenCalled ==
    /\ ~len.called
    /\ \E overflow_checks \in BOOLEAN : len' = IteratorLen(block_iterator, overflow_checks)
    /\ UNCHANGED <<structure, wire_graph, logic_data, events, logic_input_event_queue,
                   logic_output_event_queue, phase, tick, ran, written, location, other,
                   relative_coords, add_assign, block_iterator>>

IterNext == NextCalled \/ LenCalled

IterSpec == IterInit /\ [][IterNext]_vars

(***************************************************************************)
(* Connectivity of the blocks of a structure, read off the structure alone. *)
(***************************************************************************)
\* The connection a block shows on the side `local_face` of its cell.
ConnectionAt(st, coords, local_face) ==
    IF IsLogicBlock(BlockAt(st, coords))
    THEN ConnectionOn(BlockAt(st, coords),
                      LocalToGlobal(BlockRotation(st, coords), local_face))
    ELSE NoConnection

\* The ports the blocks of the structure have: a port face whose neighbour
\* coordinate exists.
PortsOfStructure(st) ==
    {p \in (DOMAIN st) \X Faces :
        /\ ConnectionAt(st, p[1], p[2]) \in {Input, Output}
        /\ Step(st, p[1], p[2]) # NoCoords}

\* Two cells joined through a pair of touching wire faces.
WireLinked(st, a, b) ==
    \E f \in Faces :
        /\ Step(st, a, f) = b
        /\ ConnectionAt(st, a, f) = Wire
        /\ ConnectionAt(st, b, Inverse(f)) = Wire

\* The cells reachable from `cells` through wire faces.
RECURSIVE WireComponent(_, _)
WireComponent(st, cells) ==
    LET more == {b \in DOMAIN st : \E a \in cells : WireLinked(st, a, b)} \ cells
    IN  IF more = {} THEN cells ELSE WireComponent(st, cells \cup more)

\* The cell a port faces, and the side of that cell the port touches.
FacedCell(st, port) == Step(st, port[1], port[2])
FacedSide(port) == Inverse(port[2])

\* The port touches a wire face.
OnWire(st, port) ==
    /\ FacedCell(st, port) # NoCoords
    /\ ConnectionAt(st, FacedCell(st, port), FacedSide(port)) = Wire

\* p and q are joined by a path through wire faces, or face each other.
Connected(st, p, q) ==
    \/ p = q
    \/ /\ FacedCell(st, p) = q[1]
       /\ FacedSide(p) = q[2]
    \/ /\ OnWire(st, p)
       /\ OnWire(st, q)
       /\ FacedCell(st, q) \in WireComponent(st, {FacedCell(st, p)})

\* The ports registered in the graph and the group each maps to.
RegisteredPorts(g) == (DOMAIN g.group_of_input_port) \cup (DOMAIN g.group_of_output_port)

GroupOfPort(g, port) ==
    IF port \in DOMAIN g.group_of_input_port THEN g.group_of_input_port[port]
    ELSE g.group_of_output_port[port]

\* The ports mapped to a group id, of both kinds.
PortsMappedTo(g, id) == {p \in RegisteredPorts(g) : GroupOfPort(g, p) = id}

\* The partition of the registered ports into groups.
PortPartition(g) ==
    {PortsMappedTo(g, GroupOfPort(g, p)) : p \in RegisteredPorts(g)}

\* The number of entries of a port list.
RECURSIVE ListLen(_)
ListLen(ports) ==
    IF DOMAIN ports = {} THEN 0
    ELSE LET p == CHOOSE q \in DOMAIN ports : TRUE
         IN  ports[p] + ListLen(Del(ports, p))

PortCount(g, id) == ListLen(g.input_ports_of_group[id]) + ListLen(g.output_ports_of_group[id])

(***************************************************************************)
(* Claims.                                                                  *)
(***************************************************************************)

\* C1: in every reachable state two registered ports have the same group id
\* exactly when they are joined by a path of face-adjacent blocks through wire
\* faces or face each other directly.
C1_SameGroupIffConnected ==
    \A p, q \in RegisteredPorts(wire_graph) :
        (GroupOfPort(wire_graph, p) = GroupOfPort(wire_graph, q))
            <=> Connected(structure, p, q)

\* Two ports on different blocks share a group through a wire path of at least
\* two wires, while a third registered port is in another group.
C1_Witness ==
    \E p, q, r \in RegisteredPorts(wire_graph) :
        /\ p[1] # q[1]
        /\ GroupOfPort(wire_graph, p) = GroupOfPort(wire_graph, q)
        /\ GroupOfPort(wire_graph, r) # GroupOfPort(wire_graph, p)
        /\ OnWire(structure, p)
        /\ OnWire(structure, q)
        /\ FacedCell(structure, p) # FacedCell(structure, q)

\* C2: for each port kind, a port maps to g exactly when g exists and the port
\* occurs exactly once in g's port list; no port is in the list of any other
\* group and no port maps to a deleted group.
IndexConsistent(g, group_of, ports_of) ==
    /\ DOMAIN ports_of = DOMAIN g.groups
    /\ \A p \in DOMAIN group_of :
          /\ group_of[p] \in DOMAIN g.groups
          /\ p \in DOMAIN ports_of[group_of[p]]
          /\ ports_of[group_of[p]][p] = 1
    /\ \A id \in DOMAIN ports_of : \A p \in DOMAIN ports_of[id] :
          /\ p \in DOMAIN group_of
          /\ group_of[p] = id

C2_PortIndexConsistent ==
    /\ IndexConsistent(wire_graph, wire_graph.group_of_input_port,
                       wire_graph.input_ports_of_group)
    /\ IndexConsistent(wire_graph, wire_graph.group_of_output_port,
                       wire_graph.output_ports_of_group)

\* A group holds an input and an output port, and a group was deleted before.
C2_Witness ==
    \E id \in DOMAIN wire_graph.groups :
        /\ DOMAIN wire_graph.input_ports_of_group[id] # {}
        /\ DOMAIN wire_graph.output_ports_of_group[id] # {}
        /\ Cardinality(DOMAIN wire_graph.groups) + 2 <= wire_graph.next_group_id

\* C3 as stated: every existing group has a port in one of its lists.
C3_EveryGroupHasPort ==
    \A id \in DOMAIN wire_graph.groups : PortCount(wire_graph, id) >= 1

\* C3, amended: every existing group has a port in one of its lists, or its
\* representative wire coordinate names a wire block of the structure.
C3_EveryGroupHasPortOrWire ==
    \A id \in DOMAIN wire_graph.groups :
        \/ PortCount(wire_graph, id) >= 1
        \/ /\ wire_graph.groups[id].recent_wire_coords \in DOMAIN structure
           /\ BlockAt(structure, wire_graph.groups[id].recent_wire_coords) = "logic_wire"

\* A group with a wire and no port lives next to a group with a port and no wire.
C3_Witness ==
    /\ \E id \in DOMAIN wire_graph.groups :
          /\ PortCount(wire_graph, id) = 0
          /\ wire_graph.groups[id].recent_wire_coords # NoCoords
    /\ \E id \in DOMAIN wire_graph.groups :
          /\ PortCount(wire_graph, id) >= 1
          /\ wire_graph.groups[id].recent_wire_coords = NoCoords

\* C4: ids are handed out strictly increasing and never reused: every group id
\* that appears in a step was not allocated before the step (it is at least
\* the old next_group_id), next_group_id never decreases, and every live
\* group id is below next_group_id.
C4_IdsIncreaseStep ==
    /\ wire_graph'.next_group_id >= wire_graph.next_group_id
    /\ \A id \in (DOMAIN wire_graph'.groups) \ (DOMAIN wire_graph.groups) :
          id >= wire_graph.next_group_id
    /\ \A id \in DOMAIN wire_graph'.groups : id < wire_graph'.next_group_id
    /\ \A p \in RegisteredPorts(wire_graph') : GroupOfPort(wire_graph', p) < wire_graph'.next_group_id

C4_GroupIdsNeverReused == [][C4_IdsIncreaseStep]_vars

\* Ids were discarded (allocated but never kept) and a merged group lives.
C4_Witness ==
    /\ wire_graph.next_group_id >= 4
    /\ \E id \in DOMAIN wire_graph.groups :
          /\ PortCount(wire_graph, id) >= 2
          /\ id >= 2

(***************************************************************************)
(* The networks around one cell.                                            *)
(***************************************************************************)
\* The network seen through the side `side` of cell n: the wires joined to n
\* with the ports on them, or the one port that n shows on that side.
NetAt(st, n, side) ==
    IF ConnectionAt(st, n, side) = Wire
    THEN [wires |-> WireComponent(st, {n}),
          ports |-> {p \in PortsOfStructure(st) :
                        /\ OnWire(st, p)
                        /\ FacedCell(st, p) \in WireComponent(st, {n})}]
    ELSE [wires |-> {}, ports |-> {<<n, side>>}]

\* The distinct networks that touch the six sides of cell c.
NeighborNets(st, c) ==
    {NetAt(st, Step(st, c, f), Inverse(f)) :
        f \in {h \in Faces :
                  /\ Step(st, c, h) # NoCoords
                  /\ ConnectionAt(st, Step(st, c, h), Inverse(h)) # NoConnection}}

PortsOfNets(nets) == UNION {n.ports : n \in nets}

\* The group of a network: the group of its ports, or for a network without
\* ports the group that names one of its wires.
GroupOfNet(g, net) ==
    IF net.ports # {} THEN GroupOfPort(g, CHOOSE p \in net.ports : TRUE)
    ELSE CHOOSE id \in DOMAIN g.groups : g.groups[id].recent_wire_coords \in net.wires

With(st, c, block) == [st EXCEPT ![c] = [block |-> block, up |-> Top]]

NewGroups(g, h) == (DOMAIN h.groups) \ (DOMAIN g.groups)

\* A wire placed at the air cell c joins exactly two networks: one new group
\* holds their ports and `extra` ports more, every port of both maps to it, and
\* the two old groups are gone.
MergeStep(extra) ==
    \A c \in DOMAIN structure :
        (/\ BlockAt(structure, c) = Air
         /\ BlockAt(structure', c) = "logic_wire"
         /\ Cardinality(NeighborNets(structure, c)) = 2)
        => /\ Cardinality(NewGroups(wire_graph, wire_graph')) = 1
           /\ \A id \in NewGroups(wire_graph, wire_graph') :
                 /\ PortCount(wire_graph', id)
                        = Cardinality(PortsOfNets(NeighborNets(structure, c))) + extra
                 /\ \A p \in PortsOfNets(NeighborNets(structure, c)) :
                       GroupOfPort(wire_graph', p) = id
           /\ \A net \in NeighborNets(structure, c) :
                 GroupOfNet(wire_graph, net) \notin DOMAIN wire_graph'.groups
           /\ Cardinality(DOMAIN wire_graph'.groups)
                  = Cardinality(DOMAIN wire_graph.groups) - 1

\* C5 as stated: the merged group holds N + M + 1 ports.
C5_MergedGroupHasOneMorePort == [][MergeStep(1)]_vars

\* C5, amended: a wire that joins two networks with N and M ports leaves one
\* new group with exactly N + M ports (the wire adds none); every port of both
\* networks maps to the new id and the two old groups no longer exist.
C5_MergedGroupHasAllPorts == [][MergeStep(0)]_vars

\* An air cell between two wire networks that each carry a port, where placing
\* a wire yields one new group with the ports of both.
C5_Witness ==
    \E c \in DOMAIN structure :
        /\ BlockAt(structure, c) = Air
        /\ Cardinality(NeighborNets(structure, c)) = 2
        /\ \A net \in NeighborNets(structure, c) : net.wires # {} /\ net.ports # {}
        /\ LET h == AddLogicBlock(wire_graph, With(structure, c, "logic_wire"),
                                  "logic_wire", c)
           IN  /\ h.next_group_id <= NetMaxGroupId
               /\ \E id \in NewGroups(wire_graph, h) :
                     PortCount(h, id) = Cardinality(PortsOfNets(NeighborNets(structure, c)))

\* The groups of the networks that touch cell c.
TouchedGroups(g, st, c) == {GroupOfNet(g, net) : net \in NeighborNets(st, c)}

\* C6: a wire placed where two or more distinct groups touch leaves one new
\* group whose signal is the OR of the signals those groups had.
C6_MergeStep ==
    \A c \in DOMAIN structure :
        (/\ BlockAt(structure, c) = Air
         /\ BlockAt(structure', c) = "logic_wire"
         /\ Cardinality(TouchedGroups(wire_graph, structure, c)) >= 2)
        => /\ Cardinality(NewGroups(wire_graph, wire_graph')) = 1
           /\ \A id \in NewGroups(wire_graph, wire_graph') :
                 wire_graph'.groups[id].on
                     = (\E old \in TouchedGroups(wire_graph, structure, c) :
                            wire_graph.groups[old].on)

C6_MergedSignalIsOr == [][C6_MergeStep]_vars

\* An air cell touched by three groups, one of them off and one on, where
\* placing a wire yields a group that is on.
C6_Witness ==
    \E c \in DOMAIN structure :
        /\ BlockAt(structure, c) = Air
        /\ Cardinality(TouchedGroups(wire_graph, structure, c)) = 3
        /\ \E old \in TouchedGroups(wire_graph, structure, c) : wire_graph.groups[old].on
        /\ \E old \in TouchedGroups(wire_graph, structure, c) : ~wire_graph.groups[old].on
        /\ LET h == AddLogicBlock(wire_graph, With(structure, c, "logic_wire"),
                                  "logic_wire", c)
           IN  /\ h.next_group_id <= SigMaxGroupId
               /\ \E id \in NewGroups(wire_graph, h) : h.groups[id].on

\* C7: removing a wire that was the only connection between two networks
\* leaves exactly two new groups in place of the old one; each holds exactly
\* the ports reachable from its side, once each, and every port of the old
\* group is in one of the two.
C7_SplitStep ==
    \A c \in DOMAIN structure :
        (/\ BlockAt(structure, c) = "logic_wire"
         /\ BlockAt(structure', c) = Air
         /\ Cardinality(NeighborNets(structure', c)) = 2)
        => /\ Cardinality(NewGroups(wire_graph, wire_graph')) = 2
           /\ Cardinality(NewGroups(wire_graph', wire_graph)) = 1
           /\ \A net \in NeighborNets(structure', c) :
                 \E id \in NewGroups(wire_graph, wire_graph') :
                     /\ PortsMappedTo(wire_graph', id) = net.ports
                     /\ (DOMAIN wire_graph'.input_ports_of_group[id])
                            \cup (DOMAIN wire_graph'.output_ports_of_group[id]) = net.ports
                     /\ PortCount(wire_graph', id) = Cardinality(net.ports)
           /\ \A p \in RegisteredPorts(wire_graph) :
                 GroupOfPort(wire_graph, p) \in NewGroups(wire_graph', wire_graph)
                 => /\ p \in RegisteredPorts(wire_graph')
                    /\ GroupOfPort(wire_graph', p) \in NewGroups(wire_graph, wire_graph')
                    /\ p \in PortsOfNets(NeighborNets(structure', c))

AddedThenRemoved(g, st, block, c) ==
    RemoveLogicBlock(AddLogicBlock(g, With(st, c, block), block, c), st, block, c)

\* C8: adding a logic block at an empty coordinate and removing it at once
\* restores the partition of the ports into groups and leaves no group more
\* or less than before.
C8_AddThenRemoveRestores ==
    \A c \in DOMAIN structure, block \in DOMAIN LogicBlocks :
        BlockAt(structure, c) = Air
        => /\ ~AddedThenRemoved(wire_graph, structure, block, c).panicked
           /\ PortPartition(AddedThenRemoved(wire_graph, structure, block, c))
                  = PortPartition(wire_graph)
           /\ Cardinality(DOMAIN AddedThenRemoved(wire_graph, structure, block, c).groups)
                  = Cardinality(DOMAIN wire_graph.groups)

\* An empty coordinate where adding a wire changes the partition of the ports
\* (it merges groups that hold ports) and removing it again restores it.
C8_Witness ==
    \E c \in DOMAIN structure :
        /\ BlockAt(structure, c) = Air
        /\ PortPartition(AddLogicBlock(wire_graph, With(structure, c, "logic_wire"),
                                       "logic_wire", c)) # PortPartition(wire_graph)
        /\ PortPartition(AddedThenRemoved(wire_graph, structure, "logic_wire", c))
               = PortPartition(wire_graph)

\* The step runs the systems of `set`.
Ran(set) == ran' # ran /\ Len(ran') > 0 /\ ran'[Len(ran')] = set

\* C9: the input events that a Produce system generated at tick N are handled
\* by a Consume system at a tick after N, and no Consume system runs in a tick
\* in which a Produce system has already written a group: a write at tick N is
\* observed from the Consume of tick N + 1 on.
C9_ConsumeStep ==
    Ran("Consume")
    => /\ \A i \in 1..Len(events.logic_input) :
             events.logic_input[i].by = "Produce" => events.logic_input[i].tick < tick'
       /\ written < tick'

C9_OneTickDelay == [][C9_ConsumeStep]_vars

\* The Consume systems are about to handle the input event of an and gate that
\* the Produce of the previous tick generated, and the gate will read a signal
\* that changes its state.
C9_Witness ==
    /\ LogicSystemSet[phase] = "Consume"
    /\ written = tick - 1
    /\ \E i \in 1..Len(events.logic_input) :
          /\ events.logic_input[i].by = "Produce"
          /\ events.logic_input[i].tick = tick - 1
          /\ BlockAt(structure, events.logic_input[i].block) = "and_gate"
          /\ events.logic_input[i].block \in DOMAIN logic_data
          /\ AndGateState(wire_graph, structure, events.logic_input[i].block)
                 # logic_data[events.logic_input[i].block]

\* The position of a set in the order EditLogicGraph, QueueConsumers,
\* QueueProducers, SendQueues, Consume, Produce.
Position(set) ==
    CASE set = "EditLogicGraph" -> 1
      [] set = "QueueConsumers" -> 2
      [] set = "QueueProducers" -> 3
      [] set = "SendQueues" -> 4
      [] set = "Consume" -> 5
      [] OTHER -> 6

\* The ports, their groups and the groups of a graph, without the signals.
Topology(g) ==
    <<g.group_of_input_port, g.group_of_output_port, DOMAIN g.groups, g.next_group_id>>

\* C10: the systems of a pass run in the order EditLogicGraph, QueueConsumers,
\* QueueProducers, SendQueues, Consume, Produce, starting with EditLogicGraph;
\* the graph is edited by the systems of EditLogicGraph only, so before every
\* Consume and Produce step of the pass, and Consume runs before Produce.
C10_PassStep ==
    /\ \A i, j \in 1..Len(ran') : i < j => Position(ran'[i]) < Position(ran'[j])
    /\ Len(ran') > 0 => ran'[1] = "EditLogicGraph"
    /\ \A i \in 1..Len(ran') : ran'[i] = "Produce" => \E j \in 1..Len(ran') : ran'[j] = "Consume"
    /\ Topology(wire_graph') # Topology(wire_graph) => Ran("EditLogicGraph")

C10_PhasesInOrder == [][C10_PassStep]_vars

\* A pass ran the systems of all six sets, its Produce systems wrote a group
\* of a graph that was edited, and an and gate holds the state it computed.
C10_Witness ==
    /\ Len(ran) = 6
    /\ written = tick
    /\ DOMAIN wire_graph.groups # {}
    /\ \E c \in DOMAIN logic_data : BlockAt(structure, c) = "and_gate" /\ logic_data[c] = 1

\* The sequence `s` is the beginning of the sequence `t`.
IsPrefix(s, t) == Len(s) <= Len(t) /\ \A i \in 1..Len(s) : s[i] = t[i]

\* The step belongs to the timed part of a pass whose timer has elapsed.
TimedStep == (phase = FirstTimed /\ tick' = tick + 1) \/ phase > FirstTimed

\* No group that exists before and after the step has another signal after it.
SignalsKept ==
    \A id \in DOMAIN wire_graph.groups \cap DOMAIN wire_graph'.groups :
        wire_graph'.groups[id].on = wire_graph.groups[id].on

\* Outside the timed part of a pass the queues only grow and no input or
\* output event is emitted.
QueuesKept ==
    /\ IsPrefix(logic_input_event_queue, logic_input_event_queue')
    /\ IsPrefix(logic_output_event_queue, logic_output_event_queue')
    /\ events'.logic_input = events.logic_input
    /\ events'.logic_output = events.logic_output

\* A pass that ends ran the three untimed sets only, or all six sets; the
\* queues are emptied by SendQueues only, and what SendQueues emits for a
\* block that the graph edit of a pass added was queued in the tick before.
TimedTogether ==
    /\ phase' = 1 /\ phase # 1
       => \/ ran' = SubSeq(LogicSystemSet, 1, FirstTimed - 1)
          \/ ran' = LogicSystemSet
    /\ Ran("SendQueues")
       => /\ tick' = tick + 1
          /\ events'.logic_input = events.logic_input \o logic_input_event_queue
          /\ events'.logic_output = events.logic_output \o logic_output_event_queue
          /\ \A i \in 1..Len(logic_input_event_queue) :
                logic_input_event_queue[i].tick = tick
          /\ \A i \in 1..Len(logic_output_event_queue) :
                logic_output_event_queue[i].tick = tick

\* C11: in a pass whose timer has not elapsed SendQueues, Consume and Produce
\* are skipped together: the queues keep their elements and only grow, no
\* input or output event is emitted, no system writes a group and no group
\* signal changes; in a pass whose timer has elapsed all three run, and the
\* events queued for a placed block are emitted at that tick.
C11_SkipStep ==
    /\ ~TimedStep => QueuesKept /\ SignalsKept /\ written' = written
    /\ TimedTogether

C11_TimedPhasesSkippedTogether == [][C11_SkipStep]_vars

\* The timer has not elapsed in a pass whose graph edit added a block and
\* queued its events: the queues hold them and the pass ends without a tick.
C11_Witness ==
    /\ phase = 1
    /\ ran = SubSeq(LogicSystemSet, 1, FirstTimed - 1)
    /\ Len(logic_output_event_queue) > 0
    /\ Len(logic_input_event_queue) > 0
    /\ tick > 0
    /\ \E id \in DOMAIN wire_graph.groups : wire_graph.groups[id].on


\* The queued events that are not yet emitted, in the order in which they
\* were sent: those the queue holds, then those its system has yet to read.
PendingInputs == logic_input_event_queue \o events.queue_logic_input
PendingOutputs == logic_output_event_queue \o events.queue_logic_output

\* A step that flushes emits the beginning of the pending events, in their
\* order, and leaves the rest pending; any other step leaves the pending
\* events in their order and puts the events it sends behind them.
EmittedInOrder(pending, pending_after, queue, emitted, emitted_after) ==
    /\ Ran("SendQueues") => /\ emitted_after = emitted \o queue
                            /\ pending = queue \o pending_after
    /\ ~Ran("SendQueues") => IsPrefix(pending, pending_after)

\* C12: at every flush the LogicInputEvents are emitted in the order in which
\* the QueueLogicInputEvents were sent since the previous flush, over all the
\* passes in between, and the LogicOutputEvents in the order in which the
\* QueueLogicOutputEvents were sent.
C12_FlushStep ==
    /\ EmittedInOrder(PendingInputs, PendingInputs', logic_input_event_queue,
                      events.logic_input, events'.logic_input)
    /\ EmittedInOrder(PendingOutputs, PendingOutputs', logic_output_event_queue,
                      events.logic_output, events'.logic_output)
    /\ Ran("SendQueues")
       => \A i, j \in 1..Len(logic_input_event_queue) :
             /\ logic_input_event_queue[i].by = "EditLogicGraph"
             /\ logic_input_event_queue[j].by = "Produce"
             => j < i

C12_FlushKeepsQueuingOrder == [][C12_FlushStep]_vars

\* SendQueues is about to run on an input queue that holds an event of the
\* Produce of the last tick before an event of a later graph edit, and on an
\* output queue that holds the events of two blocks.
C12_Witness ==
    /\ phase = FirstTimed
    /\ tick < MaxTick
    /\ \E i, j \in 1..Len(logic_input_event_queue) :
          /\ i < j
          /\ logic_input_event_queue[i].by = "Produce"
          /\ logic_input_event_queue[j].by = "EditLogicGraph"
    /\ \E i, j \in 1..Len(logic_output_event_queue) :
          logic_output_event_queue[i].block # logic_output_event_queue[j].block


\* The event is among the events of the sequence.
Holds(events_of, ev) == \E i \in 1..Len(events_of) : events_of[i] = ev

\* Every pending event stays pending in the step unless SendQueues emits it,
\* and the emitted events stay until the systems that read them run.
Delivered(pending, pending_after, emitted, emitted_after, reader) ==
    /\ \A i \in 1..Len(pending) :
          \/ Holds(pending_after, pending[i])
          \/ Ran("SendQueues") /\ Holds(emitted_after, pending[i])
    /\ ~Ran(reader) => IsPrefix(emitted, emitted_after)

C13_NoDropStep ==
    /\ Delivered(PendingInputs, PendingInputs', events.logic_input, events'.logic_input,
                 "Consume")
    /\ Delivered(PendingOutputs, PendingOutputs', events.logic_output,
                 events'.logic_output, "Produce")

\* An event for the block, sent before the running tick, is among the events.
HoldsFor(events_of, coords) ==
    \E i \in 1..Len(events_of) : events_of[i].block = coords /\ events_of[i].tick < tick

\* C13: every QueueLogicInputEvent and QueueLogicOutputEvent that is sent, by
\* the graph edit of a pass or by a Produce system of a tick, is eventually
\* emitted as a LogicInputEvent before the Consume systems, or as a
\* LogicOutputEvent before the Produce systems, of a later tick, provided the
\* timer elapses again; no queued event is dropped on the way.
C13_QueuedEventsDelivered ==
    /\ [][C13_NoDropStep]_vars
    /\ \A placement \in TickPlacements :
          /\ (Len(SelectSeq(PendingInputs, LAMBDA ev : ev.block = placement[1])) > 0
                 /\ tick < MaxTick)
                ~> (/\ LogicSystemSet[phase] = "Consume"
                    /\ HoldsFor(events.logic_input, placement[1]))
          /\ (Len(SelectSeq(PendingOutputs, LAMBDA ev : ev.block = placement[1])) > 0
                 /\ tick < MaxTick)
                ~> (/\ LogicSystemSet[phase] = "Produce"
                    /\ HoldsFor(events.logic_output, placement[1]))

\* The Consume systems are about to read an input event that a Produce system
\* queued in the tick before, and the Produce systems will read the output
\* event that the graph edit queued for a placed block.
C13_Witness ==
    /\ LogicSystemSet[phase] = "Consume"
    /\ \E i \in 1..Len(events.logic_input) :
          /\ events.logic_input[i].by = "Produce"
          /\ events.logic_input[i].tick = tick - 1
          /\ BlockAt(structure, events.logic_input[i].block) = "and_gate"
    /\ \E i \in 1..Len(events.logic_output) :
          /\ events.logic_output[i].by = "EditLogicGraph"
          /\ events.logic_output[i].tick = tick - 1


\* The registered ports of the block at a coordinate.
PortsAt(g, coords) == {p \in RegisteredPorts(g) : p[1] = coords}

\* The ports a block declares at a coordinate whose neighbour exists.
DeclaredPorts(st, block, coords) ==
    {Port(coords, f) : f \in {h \in Faces : /\ ConnectionOn(block, h) \in {Input, Output}
                                            /\ Step(st, coords, h) # NoCoords}}

\* The graph after the old block at c is removed as a change of its own, with
\* air in its place.
RemovedAlone(g, st, old_block, c) == RemoveLogicBlock(g, With(st, c, Air), old_block, c)

\* The change of the block at c from old_block to new_block took the graph
\* from g to h: the removal is whole before the addition starts.
RemovedThenAdded(g, h, st, old_block, new_block, c) ==
    /\ IsLogicBlock(old_block) /\ IsLogicBlock(new_block)
       => /\ PortsAt(RemoveLogicBlock(g, st, old_block, c), c) = {}
          /\ h = AddLogicBlock(RemoveLogicBlock(g, st, old_block, c), st, new_block, c)
          /\ PortPartition(h)
                = PortPartition(AddLogicBlock(RemovedAlone(g, st, old_block, c),
                                              st, new_block, c))
          /\ PortsAt(h, c) = DeclaredPorts(st, new_block, c)
    /\ IsLogicBlock(old_block) /\ ~IsLogicBlock(new_block)
       => /\ h = RemoveLogicBlock(g, st, old_block, c)
          /\ PortsAt(h, c) = {}
    /\ ~IsLogicBlock(old_block) /\ IsLogicBlock(new_block)
       => /\ h = AddLogicBlock(g, st, new_block, c)
          /\ PortsAt(h, c) = DeclaredPorts(st, new_block, c)

\* C14: for a block change whose old and new block both have a logic entry,
\* remove_logic_block for the old block is applied completely before
\* add_logic_block for the new block; when only the old block has an entry
\* only the removal is applied, when only the new one has, only the addition.
C14_ChangeStep ==
    \A c \in DOMAIN structure :
        structure'[c] # structure[c]
        => RemovedThenAdded(wire_graph, wire_graph', structure',
                            BlockAt(structure, c), BlockAt(structure', c), c)

C14_RemoveBeforeAdd == [][C14_ChangeStep]_vars

\* The graph h has output ports, and no input port, at the coordinate.
OutputsOnlyAt(h, c) ==
    /\ PortsAt(h, c) # {}
    /\ PortsAt(h, c) \subseteq DOMAIN h.group_of_output_port
    /\ PortsAt(h, c) \cap DOMAIN h.group_of_input_port = {}

\* A block whose ports are inputs can be replaced by a block whose ports are
\* outputs: after the change the coordinate has output ports only.
C14_Witness ==
    \E c \in DOMAIN structure, block \in DOMAIN LogicBlocks :
        /\ IsLogicBlock(BlockAt(structure, c))
        /\ block # BlockAt(structure, c)
        /\ PortsAt(wire_graph, c) # {}
        /\ PortsAt(wire_graph, c) \subseteq DOMAIN wire_graph.group_of_input_port
        /\ BlockChanged(wire_graph, With(structure, c, block), BlockAt(structure, c),
                        block, c).next_group_id <= MaxGroupId
        /\ OutputsOnlyAt(BlockChanged(wire_graph, With(structure, c, block),
                                      BlockAt(structure, c), block, c), c)

\* A search that arrives at the side f of the cell c finds no group there and
\* renames nothing.
NothingAt(g, st, c, f) ==
    /\ FindGroup(g, st, c, f, {}).group = NoGroup
    /\ FindGroup(g, st, c, f, {}).visited = {}
    /\ RenameGroup(g, st, g.next_group_id, c, f, {})
           = [g |-> g, visited |-> {}, used |-> FALSE]

\* The groups on the two sides of the cell c along the face f: what a search
\* from c finds through f and through the opposite face.
GroupBeside(g, st, c, f) ==
    IF Step(st, c, f) = NoCoords THEN NoGroup
    ELSE FindGroup(g, st, Step(st, c, f), Inverse(f), AllFor(c)).group

\* C15: a block change in which neither the old nor the new block has a logic
\* entry leaves the graph (groups, both port maps, both port lists, next group
\* id) unchanged; a search that reaches a block without an entry reports no
\* group, and the blocks on the two sides of such a block in a row of cells,
\* where no path leads around it, are never in one group.
C15_UnregisteredStep ==
    /\ \A c \in DOMAIN structure :
          (/\ structure'[c] # structure[c]
           /\ ~IsLogicBlock(BlockAt(structure, c))
           /\ ~IsLogicBlock(BlockAt(structure', c)))
          => wire_graph' = wire_graph
    /\ \A c \in DOMAIN structure' :
          ~IsLogicBlock(BlockAt(structure', c))
          => \A f \in Faces :
                /\ NothingAt(wire_graph', structure', c, f)
                /\ GroupBeside(wire_graph', structure', c, f) # NoGroup
                   => GroupBeside(wire_graph', structure', c, f)
                          # GroupBeside(wire_graph', structure', c, Inverse(f))

C15_UnregisteredBlocksAreTransparent == [][C15_UnregisteredStep]_vars

\* A block without an entry stands between a block with an input port and a
\* block with an output port that face it, and each port has a group of its
\* own.
C15_Witness ==
    \E c \in DOMAIN structure, f \in Faces :
        /\ BlockAt(structure, c) = "stone"
        /\ GroupBeside(wire_graph, structure, c, f) # NoGroup
        /\ GroupBeside(wire_graph, structure, c, Inverse(f)) # NoGroup
        /\ GroupBeside(wire_graph, structure, c, f)
               # GroupBeside(wire_graph, structure, c, Inverse(f))
        /\ Port(Step(structure, c, f), Inverse(f)) \in DOMAIN wire_graph.group_of_input_port
        /\ Port(Step(structure, c, Inverse(f)), f) \in DOMAIN wire_graph.group_of_output_port


\* The faces of a block that carry a port.
PortFaces(block) == {f \in Faces : ConnectionOn(block, f) \in {Input, Output}}

\* The port is registered in the graph h, alone in a group that the graph g
\* did not have and that is off.
InFreshGroup(g, h, port) ==
    /\ port \in RegisteredPorts(h)
    /\ GroupOfPort(h, port) \in NewGroups(g, h)
    /\ PortsMappedTo(h, GroupOfPort(h, port)) = {port}
    /\ ~h.groups[GroupOfPort(h, port)].on

\* The port faces a cell of the structure that holds no logic block.
FacesNoLogicBlock(st, c, f) ==
    /\ Step(st, c, f) # NoCoords
    /\ ~IsLogicBlock(BlockAt(st, Step(st, c, f)))

\* The maps and lists of the graph, without the counter of group ids.
GraphContent(g) ==
    <<g.groups, g.group_of_input_port, g.group_of_output_port,
      g.input_ports_of_group, g.output_ports_of_group, g.panicked>>

\* A block with ports is placed at c, or removed from c: what happens to a
\* port whose face has no neighbour block, when `beyond` tells whether a
\* face with its neighbour coordinate outside the structure is treated as a
\* face with a neighbour cell without a logic block.
NoNeighborStep(beyond) ==
    \A c \in DOMAIN structure :
        /\ (/\ ~IsLogicBlock(BlockAt(structure, c))
            /\ IsLogicBlock(BlockAt(structure', c)))
           => /\ ~wire_graph'.panicked
              /\ \A f \in PortFaces(BlockAt(structure', c)) :
                    /\ FacesNoLogicBlock(structure', c, f)
                       => InFreshGroup(wire_graph, wire_graph', Port(c, f))
                    /\ Step(structure', c, f) = NoCoords
                       => IF beyond
                          THEN InFreshGroup(wire_graph, wire_graph', Port(c, f))
                          ELSE Port(c, f) \notin RegisteredPorts(wire_graph')
              /\ (\A f \in Faces : Step(structure', c, f) = NoCoords
                                      \/ FacesNoLogicBlock(structure', c, f))
                 => /\ Cardinality(NewGroups(wire_graph, wire_graph'))
                          = Cardinality({f \in PortFaces(BlockAt(structure', c)) :
                                            beyond \/ Step(structure', c, f) # NoCoords})
                               + (IF Len(WireFaces(BlockAt(structure', c))) > 0 THEN 1 ELSE 0)
                    /\ GraphContent(RemoveLogicBlock(wire_graph', structure,
                                                     BlockAt(structure', c), c))
                          = GraphContent(wire_graph)
        /\ (/\ IsLogicBlock(BlockAt(structure, c))
            /\ ~IsLogicBlock(BlockAt(structure', c)))
           => /\ ~wire_graph'.panicked
              /\ PortsAt(wire_graph', c) = {}
              /\ \A f \in PortFaces(BlockAt(structure, c)) :
                    FacesNoLogicBlock(structure, c, f)
                    => /\ Port(c, f) \in RegisteredPorts(wire_graph)
                       /\ GroupOfPort(wire_graph, Port(c, f)) \notin DOMAIN wire_graph'.groups

\* C16 as stated: a port face whose neighbour coordinate lies outside the
\* structure is treated like a port face whose neighbour cell holds no logic
\* block: the port is registered in a fresh group of its own.
C16_OutOfBoundsPortGetsGroup == [][NoNeighborStep(TRUE)]_vars

\* C16: adding a block with a port face whose neighbour coordinate lies
\* outside the structure raises no error, but registers no port and creates
\* no group for that face, while a port face whose neighbour cell holds no
\* logic block is registered in a fresh group of its own, which is off;
\* removing the block deletes exactly the ports and groups its addition made.
C16_OutOfBoundsPortIsSkipped == [][NoNeighborStep(FALSE)]_vars

\* A block stands beside a block without a logic entry: its port on that side
\* is alone in its group, and its port on a side that has no neighbour
\* coordinate is not registered.
C16_Witness ==
    \E c \in DOMAIN structure, f, h \in Faces :
        /\ BlockAt(structure, c) \in {"light", "logic_on"}
        /\ FacesNoLogicBlock(structure, c, f)
        /\ BlockAt(structure, Step(structure, c, f)) = "stone"
        /\ Port(c, f) \in RegisteredPorts(wire_graph)
        /\ PortsMappedTo(wire_graph, GroupOfPort(wire_graph, Port(c, f))) = {Port(c, f)}
        /\ Step(structure, c, h) = NoCoords
        /\ Port(c, h) \notin RegisteredPorts(wire_graph)


\* A wire is removed from the cell c and no logic block takes its place.
WireRemoved(c) ==
    /\ BlockAt(structure, c) = "logic_wire"
    /\ ~IsLogicBlock(BlockAt(structure', c))

\* C17 as stated: when a wire is removed, a remaining component without ports
\* gets no group, so every group the removal creates has a port, and the
\* removal of a wire from a structure without ports leaves no group.
C17_DiscardStep ==
    \A c \in DOMAIN structure :
        WireRemoved(c)
        => /\ \A id \in NewGroups(wire_graph, wire_graph') : PortCount(wire_graph', id) >= 1
           /\ RegisteredPorts(wire_graph) = {} => DOMAIN wire_graph'.groups = {}

C17_KeepStep ==
    \A c \in DOMAIN structure :
        WireRemoved(c)
        => /\ ~wire_graph'.panicked
           /\ Cardinality(NewGroups(wire_graph, wire_graph'))
                  = Cardinality(NeighborNets(structure', c))
           /\ Cardinality(NewGroups(wire_graph', wire_graph)) = 1
           /\ \A net \in NeighborNets(structure', c) :
                 \E id \in NewGroups(wire_graph, wire_graph') :
                     /\ PortsMappedTo(wire_graph', id) = net.ports
                     /\ PortCount(wire_graph', id) = Cardinality(net.ports)
                     /\ net.wires # {} => wire_graph'.groups[id].recent_wire_coords \in net.wires
                     /\ \A old \in NewGroups(wire_graph', wire_graph) :
                           wire_graph'.groups[id].on = wire_graph.groups[old].on

Touches(st, c, f) ==
    /\ Step(st, c, f) # NoCoords
    /\ ConnectionAt(st, Step(st, c, f), Inverse(f)) # NoConnection

\* The port on the side f of the block placed at c joined the group that the
\* network it touches had in g, and that group holds the ports of the network
\* (st is the structure before the block is placed).
JoinedGroup(g, h, st, c, f) ==
    /\ Port(c, f) \in RegisteredPorts(h)
    /\ GroupOfPort(h, Port(c, f)) \in DOMAIN g.groups
    /\ GroupOfPort(h, Port(c, f)) = GroupOfNet(g, NetAt(st, Step(st, c, f), Inverse(f)))
    /\ NetAt(st, Step(st, c, f), Inverse(f)).ports
           \subseteq PortsMappedTo(h, GroupOfPort(h, Port(c, f)))
    /\ h.groups[GroupOfPort(h, Port(c, f))].on = g.groups[GroupOfPort(h, Port(c, f))].on

\* A block with ports and without wire faces is placed at the cell c: a port
\* that touches a wire chain or a port joins the group of that network and
\* no group is created for it; a port through whose face nothing is reached
\* gets a new group; `beyond` tells whether that includes a face without a
\* neighbour coordinate.
PortPlacedStep(beyond) ==
    \A c \in DOMAIN structure :
        (/\ ~IsLogicBlock(BlockAt(structure, c))
         /\ IsLogicBlock(BlockAt(structure', c))
         /\ Len(WireFaces(BlockAt(structure', c))) = 0)
        => /\ \A f \in PortFaces(BlockAt(structure', c)) :
                 /\ Touches(structure', c, f)
                    => JoinedGroup(wire_graph, wire_graph', structure, c, f)
                 /\ FacesNoLogicBlock(structure', c, f)
                       \/ (Step(structure', c, f) # NoCoords /\ ~Touches(structure', c, f))
                    => InFreshGroup(wire_graph, wire_graph', Port(c, f))
                 /\ Step(structure', c, f) = NoCoords
                    => IF beyond
                       THEN InFreshGroup(wire_graph, wire_graph', Port(c, f))
                       ELSE Port(c, f) \notin RegisteredPorts(wire_graph')
           /\ Cardinality(NewGroups(wire_graph, wire_graph'))
                  = Cardinality({f \in PortFaces(BlockAt(structure', c)) :
                                    /\ ~Touches(structure', c, f)
                                    /\ beyond \/ Step(structure', c, f) # NoCoords})
           /\ NewGroups(wire_graph', wire_graph) = {}

\* C18 as stated: a new port that touches a wire chain or a port joins the
\* existing group and creates none; a port through whose face nothing is
\* reachable gets exactly one new group, which is off and holds only it.
C18_EveryLonePortGetsGroup == [][PortPlacedStep(TRUE)]_vars

\* C18: a new port that touches a wire chain, or a port that faces it, joins
\* the existing group of that network and no group is created for it; a port
\* whose face has a neighbour coordinate through which nothing is reachable
\* gets exactly one new group, which is off and holds only that port; a port
\* whose face has no neighbour coordinate is not registered and gets no group.
C18_PortJoinsGroupOrGetsNew == [][PortPlacedStep(FALSE)]_vars

\* Wire, wire, and gate in a row: one group spans both wires and the input
\* port of the gate that touches them; it is off and it is the only group.
C18_Witness ==
    /\ BlockAt(structure, <<0, 0, 0>>) = "logic_wire"
    /\ BlockAt(structure, <<1, 0, 0>>) = "logic_wire"
    /\ BlockAt(structure, <<2, 0, 0>>) = "and_gate"
    /\ Port(<<2, 0, 0>>, 1) \in DOMAIN wire_graph.group_of_input_port
    /\ DOMAIN wire_graph.groups = {wire_graph.group_of_input_port[Port(<<2, 0, 0>>, 1)]}
    /\ RegisteredPorts(wire_graph) = {Port(<<2, 0, 0>>, 1)}
    /\ \A id \in DOMAIN wire_graph.groups :
          /\ ~wire_graph.groups[id].on
          /\ wire_graph.groups[id].recent_wire_coords \in {<<0, 0, 0>>, <<1, 0, 0>>}
          /\ FindGroup(wire_graph, structure, <<0, 0, 0>>, 0, {}).group = id


\* Every logic block of the structure has been added to the graph.
Replayed ==
    \A c \in DOMAIN structure : IsLogicBlock(BlockAt(structure, c)) => c \in DOMAIN logic_data

\* C19: replaying add_logic_block once for every logic block of a loaded
\* structure, from an empty graph and in any order, ends with the ports of
\* the structure partitioned into their connected components, so with the
\* same partition whatever the order; no expect fails on the way.
C19_ReplayGivesComponents ==
    /\ ~wire_graph.panicked
    /\ Replayed
       => /\ RegisteredPorts(wire_graph) = PortsOfStructure(structure)
          /\ \A p, q \in RegisteredPorts(wire_graph) :
                (GroupOfPort(wire_graph, p) = GroupOfPort(wire_graph, q))
                    <=> Connected(structure, p, q)
          /\ IndexConsistent(wire_graph, wire_graph.group_of_input_port,
                             wire_graph.input_ports_of_group)
          /\ IndexConsistent(wire_graph, wire_graph.group_of_output_port,
                             wire_graph.output_ports_of_group)

\* The replay of a structure is complete: two ports on different blocks are
\* joined by a chain of two wires and share a group, and a third port is in
\* another group.
C19_Witness ==
    /\ Replayed
    /\ \E p, q, r \in RegisteredPorts(wire_graph) :
          /\ p[1] # q[1]
          /\ OnWire(structure, p)
          /\ OnWire(structure, q)
          /\ FacedCell(structure, p) # FacedCell(structure, q)
          /\ GroupOfPort(wire_graph, p) = GroupOfPort(wire_graph, q)
          /\ GroupOfPort(wire_graph, r) # GroupOfPort(wire_graph, p)
          /\ BlockAt(structure, p[1]) # BlockAt(structure, q[1])


\* The events of one structure among the events of a pass.
EventsOf(evs, entity) == SelectSeq(evs, LAMBDA ev : ev.structure_entity = entity)

\* C20 as stated: a failed expect while a block change of one structure is
\* processed stays local to that structure: the block changes of the other
\* structures queued in the same pass are still applied, and the scheduler
\* still runs the later sets of the pass.
C20_OthersAppliedStep ==
    Ran("EditLogicGraph")
    => \A entity \in Entities :
          ~BatchChanged(wire_graph, structure, EventsOf(events.block_changed, entity), 1)
                [entity].panicked
          => wire_graph'[entity]
                 = BatchChanged(wire_graph, structure,
                                EventsOf(events.block_changed, entity), 1)[entity]

\* The sets of a pass after the graph edit.
LaterSets ==
    \/ StillRunning(QueueLogicConsumers)
    \/ StillRunning(QueueLogicProducers)
    \/ StillRunning(TimerNotElapsed)
    \/ StillRunning(SendQueuedLogicEvents)
    \/ StillRunning(Consume)
    \/ StillRunning(Produce)

C20_PanicStaysLocal ==
    /\ [][C20_OthersAppliedStep]_vars
    /\ [](AppPanicked(wire_graph) => ENABLED LaterSets)


\* The last block change queued for a cell, as a sequence of at most one event.
LastChangeAt(evs, c) ==
    IF \E i \in 1..Len(evs) : evs[i].block = c
    THEN <<evs[CHOOSE i \in 1..Len(evs) :
                 /\ evs[i].block = c
                 /\ \A j \in (i + 1)..Len(evs) : evs[j].block # c]>>
    ELSE <<>>

\* The listener has run through its events.
ListenerDone == Ran("EditLogicGraph") /\ ~wire_graph'.panicked

\* C21: when a block change places a block with a logic registry entry, then
\* after the EditLogicGraph set of that pass the signal store has an entry for
\* the block and it holds the initial signal of the block's type, whatever the
\* store held for the block that was replaced.
C21_PlacedStep ==
    ListenerDone
    => \A c \in DOMAIN structure :
          \A i \in 1..Len(LastChangeAt(events.block_changed, c)) :
             IsLogicBlock(LastChangeAt(events.block_changed, c)[i].new_block)
             => /\ c \in DOMAIN logic_data'
                /\ logic_data'[c]
                     = InitialSignal(LastChangeAt(events.block_changed, c)[i].new_block)

C21_PlacedBlockHoldsInitialSignal == [][C21_PlacedStep]_vars

\* A logic block that stores another signal than the initial signal of the
\* logic block replacing it, when the listener is about to run.
C21_Witness ==
    /\ LogicSystemSet[phase] = "EditLogicGraph"
    /\ ~wire_graph.panicked
    /\ \E i \in 1..Len(events.block_changed) :
          /\ IsLogicBlock(events.block_changed[i].old_block)
          /\ IsLogicBlock(events.block_changed[i].new_block)
          /\ events.block_changed[i].block \in DOMAIN logic_data
          /\ logic_data[events.block_changed[i].block]
                # InitialSignal(events.block_changed[i].new_block)
    /\ PlacedEvents([g |-> wire_graph, data |-> logic_data, outputs |-> <<>>,
                     inputs |-> <<>>],
                    structure, events.block_changed, 1, Now).g.next_group_id
          <= GateMaxGroupId


\* The output events sent for this pass' Produce set can write `on` to the
\* group: an output port of the group belongs to a block with such an event
\* that stores that signal.
WrittenByOwnPort(id, on) ==
    \E port \in DOMAIN wire_graph.output_ports_of_group[id] :
        /\ \E i \in 1..Len(events.logic_output) : events.logic_output[i].block = port[1]
        /\ port[1] \in DOMAIN logic_data
        /\ on = (logic_data[port[1]] # 0)

\* C22: the signal of a group that exists before and after a step changes
\* only in a step of the Produce set, and then to the signal stored by the
\* block of one of the group's output ports; no step of EditLogicGraph, of
\* the queue sets, of SendQueues or of Consume changes it.
C22_SignalStep ==
    \A id \in DOMAIN wire_graph.groups \cap DOMAIN wire_graph'.groups :
        wire_graph'.groups[id].on # wire_graph.groups[id].on
        => /\ Ran("Produce")
           /\ WrittenByOwnPort(id, wire_graph'.groups[id].on)

C22_SignalWrittenOnlyInProduce == [][C22_SignalStep]_vars

\* The listener is about to add a port to a group that is on, and Produce has
\* switched a group on before.
C22_Witness ==
    /\ LogicSystemSet[phase] = "EditLogicGraph"
    /\ ~wire_graph.panicked
    /\ written > 0
    /\ \E id \in DOMAIN wire_graph.groups :
          /\ wire_graph.groups[id].on
          /\ LET h == PlacedEvents([g |-> wire_graph, data |-> logic_data,
                                    outputs |-> <<>>, inputs |-> <<>>],
                                   structure, events.block_changed, 1, Now).g
             IN  /\ h.next_group_id <= GateMaxGroupId
                 /\ ~h.panicked
                 /\ id \in DOMAIN h.groups
                 /\ ListLen(h.input_ports_of_group[id])
                       > ListLen(wire_graph.input_ports_of_group[id])


\* The input port on a face of the block at c is in a group that is on.
ReadsOn(g, c, local_face) ==
    \E id \in DOMAIN g.groups :
        /\ Port(c, local_face) \in DOMAIN g.group_of_input_port
        /\ g.group_of_input_port[Port(c, local_face)] = id
        /\ g.groups[id].on

\* The and gates that handle an input event in the Consume set of this pass.
HandlingGates ==
    { c \in DOMAIN structure :
        /\ BlockAt(structure, c) = "and_gate"
        /\ c \in DOMAIN logic_data
        /\ \E i \in 1..Len(events.logic_input) : events.logic_input[i].block = c }

\* C23: after the and gate has handled an input event its stored signal is 1
\* when both its left and its right input port are in a group that is on, and
\* 0 when either of them is in a group that is off or in no group; an and
\* gate that was just placed stores 0.
C23_GateStep ==
    /\ Ran("Consume")
       => \A c \in HandlingGates :
             logic_data'[c] = IF ReadsOn(wire_graph, c, 0) /\ ReadsOn(wire_graph, c, 1)
                              THEN 1 ELSE 0
    /\ ListenerDone
       => \A c \in DOMAIN structure :
             \A i \in 1..Len(LastChangeAt(events.block_changed, c)) :
                LastChangeAt(events.block_changed, c)[i].new_block = "and_gate"
                => logic_data'[c] = 0

C23_AndGateStoresConjunction == [][C23_GateStep]_vars

\* An and gate storing 0 is about to handle an input event while both its
\* input ports are in groups that are on.
C23_Witness ==
    /\ LogicSystemSet[phase] = "Consume"
    /\ ~wire_graph.panicked
    /\ \E c \in HandlingGates :
          /\ logic_data[c] = 0
          /\ ReadsOn(wire_graph, c, 0)
          /\ ReadsOn(wire_graph, c, 1)

\* An and gate with an input port in no group is about to handle an input
\* event.
C23_NoGroupReached ==
    /\ LogicSystemSet[phase] = "Consume"
    /\ \E c \in HandlingGates :
          Port(c, 1) \notin DOMAIN wire_graph.group_of_input_port


\* The exact relative coordinate on an axis: SECTOR_DIMENSIONS times the
\* difference of the sectors plus the difference of the locals.
ExactRelative(this, that) ==
    << SECTOR_DIMENSIONS * (that.sector_x - this.sector_x) + (that.local[1] - this.local[1]),
       SECTOR_DIMENSIONS * (that.sector_y - this.sector_y) + (that.local[2] - this.local[2]),
       SECTOR_DIMENSIONS * (that.sector_z - this.sector_z) + (that.local[3] - this.local[3]) >>

\* C24 as stated: for any two Locations a and b, a.relative_coords_to(b) is on
\* each axis the f32 of SECTOR_DIMENSIONS times the sector difference plus the
\* local difference, and it is the negation of b.relative_coords_to(a).
C24_RelativeCoordsForAnyPair ==
    relative_coords.called
    => /\ ~relative_coords.panicked
       /\ \A i \in 1..3 :
             /\ relative_coords.value[i] = F32(ExactRelative(location, other)[i])
             /\ relative_coords.value[i]
                  = -RelativeCoordsTo(other, location,
                                      relative_coords.overflow_checks).value[i]


\* The number of items that repeated calls of next still return.
RECURSIVE Remaining(_)
Remaining(it) ==
    IF IteratorNext(it).item = NoCoords THEN 0 ELSE 1 + Remaining(IteratorNext(it).it)

\* C25 as stated: for a BlockIterator with include_empty over an inclusive
\* range, len returns the number of items next will still return, and is_empty
\* (len = 0) holds exactly when next would return None.
C25_LenIsItemsLeft ==
    len.called /\ block_iterator.state = "IncludeEmpty"
    => /\ ~len.panicked
       /\ len.value = Remaining(block_iterator)
       /\ (len.value = 0) <=> (IteratorNext(block_iterator).item = NoCoords)



(***************************************************************************)
(* A row of cells with output blocks that drive their groups while wires    *)
(* are placed and removed.                                                  *)
(***************************************************************************)
SplitInit ==
    /\ structure = EmptyStructure(SplitX, 1, 1)
    /\ wire_graph = EmptyGraph
    /\ Idle

SplitNext ==
    \/ \E coords \in DOMAIN structure, block \in NetBlocks :
          SetBlockAt(coords, block, Top, SplitMaxGroupId)
    \/ \E coords \in DOMAIN structure, signal \in {0, 1} :
          LogicBlockOutput(coords, signal)

SplitSpec == SplitInit /\ [][SplitNext]_vars

(***************************************************************************)
(* A column of RotY cells in which wires and and gates are placed with      *)
(* their up face Top or Right, and removed.                                 *)
(***************************************************************************)
RotBlocks == {"logic_wire", "and_gate"}

RotInit ==
    /\ structure = EmptyStructure(1, RotY, 1)
    /\ wire_graph = EmptyGraph
    /\ Idle

\* set_block_at with a block and its up face, or remove_block_at, which sets
\* air with the up face Top.
RotNext ==
    \E coords \in DOMAIN structure :
        \/ \E block \in RotBlocks, block_up \in {Top, Right} :
              /\ \A id \in DOMAIN wire_graph.groups : PortCount(wire_graph, id) < RotMaxPorts
              /\ SetBlockAt(coords, block, block_up, RotMaxGroupId)
        \/ SetBlockAt(coords, Air, Top, RotMaxGroupId)

RotSpec == RotInit /\ [][RotNext]_vars

(***************************************************************************)
(* A 3x3 structure on which a wire can have four neighbours: a square of    *)
(* four wires, a fifth wire and an output block next to one corner of the   *)
(* square.  Each cell holds air or the block of CycleBlocks.                *)
(***************************************************************************)
CycleBlocks ==
    [c \in Cells(3, 3, 1) |->
        IF c = <<1, 0, 0>> THEN "logic_on"
        ELSE IF c \in {<<0, 1, 0>>, <<1, 1, 0>>, <<2, 1, 0>>, <<1, 2, 0>>, <<2, 2, 0>>}
        THEN "logic_wire"
        ELSE Air]

CycleInit ==
    /\ structure = EmptyStructure(3, 3, 1)
    /\ wire_graph = EmptyGraph
    /\ Idle

\* The block of a cell is placed or removed.
CycleNext ==
    \E coords \in DOMAIN structure :
        \E block \in {Air, CycleBlocks[coords]} :
            SetBlockAt(coords, block, Top, CycleMaxGroupId)

CycleSpec == CycleInit /\ [][CycleNext]_vars

(***************************************************************************)
(* The searches with a record of their calls.  find_group and rename_group  *)
(* are repeated here with one more value threaded through the recursion:    *)
(* `entered`, the sequence of the (coordinate, face) pairs of wire blocks   *)
(* on which the function was called, in call order.  A search that has      *)
(* entered MaxEntered pairs is cut off.                                     *)
(***************************************************************************)
\* find_group, from the call on (coords, encountered_local_face).
RECURSIVE FindGroupEntered(_, _, _, _, _, _)
RECURSIVE FindGroupFacesEntered(_, _, _, _, _, _, _)
FindGroupEntered(g, st, coords, encountered_local_face, visited, entered) ==
    LET block == BlockAt(st, coords)
        port == Port(coords, encountered_local_face)
        none == [group |-> NoGroup, visited |-> visited, entered |-> entered]
    IN  IF ~IsLogicBlock(block) \/ Len(entered) >= MaxEntered THEN none
        ELSE
        LET encountered_face ==
                LocalToGlobal(BlockRotation(st, coords), encountered_local_face)
            connection == ConnectionOn(block, encountered_face)
            recent == RecentGroup(g, coords)
        IN  CASE connection = Input ->
                    [none EXCEPT !.group = Lookup(g.group_of_input_port, port)]
              [] connection = Output ->
                    [none EXCEPT !.group = Lookup(g.group_of_output_port, port)]
              [] connection = Wire ->
                    IF recent # NoGroup
                    THEN [group |-> recent, visited |-> visited,
                          entered |-> Append(entered, port)]
                    ELSE FindGroupFacesEntered(g, st, coords, WireFaces(block), 1,
                                               visited \cup {port}, Append(entered, port))
              [] OTHER -> none

\* The loop over the wire faces inside find_group, from the i-th face on.
FindGroupFacesEntered(g, st, coords, wire_faces, i, visited, entered) ==
    IF i > Len(wire_faces)
    THEN [group |-> NoGroup, visited |-> visited, entered |-> entered]
    ELSE
    LET local_face == GlobalToLocal(BlockRotation(st, coords), wire_faces[i])
        visited1 == visited \cup {Port(coords, local_face)}
        neighbor_coords == Step(st, coords, local_face)
        found == IF neighbor_coords = NoCoords
                    \/ Port(neighbor_coords, Inverse(local_face)) \in visited1
                 THEN [group |-> NoGroup, visited |-> visited1, entered |-> entered]
                 ELSE FindGroupEntered(g, st, neighbor_coords, Inverse(local_face),
                                       visited1, entered)
    IN  IF found.group # NoGroup THEN found
        ELSE FindGroupFacesEntered(g, st, coords, wire_faces, i + 1,
                                   found.visited, found.entered)

\* rename_group with nothing recorded in the visited set: neither the face
\* the wire is entered on nor the faces it is left through.
RECURSIVE RenameGroupEnteredUnmarked(_, _, _, _, _, _, _)
RECURSIVE RenameGroupFacesUnmarked(_, _, _, _, _, _, _, _)
RenameGroupEnteredUnmarked(g, st, new_group_id, coords, encountered_local_face, visited, entered) ==
    LET port == Port(coords, encountered_local_face)
        block == BlockAt(st, coords)
        unused == [g |-> g, visited |-> visited, used |-> FALSE, entered |-> entered]
    IN  IF g.panicked \/ port \in visited \/ ~IsLogicBlock(block)
           \/ Len(entered) >= MaxEntered
        THEN unused
        ELSE
        LET connection == ConnectionOn(block, encountered_local_face)
        IN  CASE connection \in {Input, Output} ->
                    [unused EXCEPT !.g = AddPort(g, coords, encountered_local_face,
                                                 new_group_id, connection),
                                   !.used = TRUE]
              [] connection = Wire ->
                    RenameGroupFacesUnmarked(g, st, new_group_id, coords,
                                             WireFaces(block), 1, visited,
                                             Append(entered, port))
              [] OTHER -> unused

RenameGroupFacesUnmarked(g, st, new_group_id, coords, wire_faces, i, visited, entered) ==
    IF i > Len(wire_faces) \/ g.panicked
    THEN [g |-> g, visited |-> visited, used |-> TRUE, entered |-> entered]
    ELSE
    LET neighbor_coords == Step(st, coords, wire_faces[i])
        r == IF neighbor_coords = NoCoords
                \/ Port(neighbor_coords, Inverse(wire_faces[i])) \in visited
             THEN [g |-> g, visited |-> visited, entered |-> entered]
             ELSE RenameGroupEnteredUnmarked(g, st, new_group_id, neighbor_coords,
                                             Inverse(wire_faces[i]), visited, entered)
    IN  RenameGroupFacesUnmarked(r.g, st, new_group_id, coords, wire_faces, i + 1,
                                 r.visited, r.entered)

\* rename_group, from the call on (coords, encountered_local_face).
RECURSIVE RenameGroupEntered(_, _, _, _, _, _, _)
RECURSIVE RenameGroupFacesEntered(_, _, _, _, _, _, _, _)
RenameGroupEntered(g, st, new_group_id, coords, encountered_local_face, visited, entered) ==
    LET port == Port(coords, encountered_local_face)
        block == BlockAt(st, coords)
        unused == [g |-> g, visited |-> visited, used |-> FALSE, entered |-> entered]
    IN  IF g.panicked \/ port \in visited \/ ~IsLogicBlock(block)
           \/ Len(entered) >= MaxEntered
        THEN unused
        ELSE
        LET encountered_face ==
                LocalToGlobal(BlockRotation(st, coords), encountered_local_face)
            connection == ConnectionOn(block, encountered_face)
        IN  CASE connection \in {Input, Output} ->
                    [unused EXCEPT !.g = AddPort(g, coords, encountered_local_face,
                                                 new_group_id, connection),
                                   !.used = TRUE]
              [] connection = Wire ->
                    LET r == RenameGroupFacesEntered(g, st, new_group_id, coords,
                                                     WireFaces(block), 1,
                                                     visited \cup {port},
                                                     Append(entered, port))
                        s == SetRecentWireCoords(r, new_group_id, coords)
                    IN  [g |-> s.g, visited |-> s.visited, used |-> s.used,
                         entered |-> r.entered]
              [] OTHER -> unused

\* The loop over the wire faces inside rename_group, from the i-th face on.
RenameGroupFacesEntered(g, st, new_group_id, coords, wire_faces, i, visited, entered) ==
    IF i > Len(wire_faces) \/ g.panicked
    THEN [g |-> g, visited |-> visited, entered |-> entered]
    ELSE
    LET local_face == GlobalToLocal(BlockRotation(st, coords), wire_faces[i])
        visited1 == visited \cup {Port(coords, local_face)}
        neighbor_coords == Step(st, coords, local_face)
        r == IF neighbor_coords = NoCoords
                \/ Port(neighbor_coords, Inverse(local_face)) \in visited1
             THEN [g |-> g, visited |-> visited1, entered |-> entered]
             ELSE RenameGroupEntered(g, st, new_group_id, neighbor_coords,
                                     Inverse(local_face), visited1, entered)
    IN  RenameGroupFacesEntered(r.g, st, new_group_id, coords, wire_faces, i + 1,
                                r.visited, r.entered)

\* Does no value occur twice in the sequence?
NoRepeat(seq) == \A i, j \in 1..Len(seq) : seq[i] = seq[j] => i = j

\* The calls the listener makes while the wire at c0 is being removed: the
\* structure no longer holds the wire, the searches start on the block the
\* face f of c0 leads to, with all faces of c0 already visited.
WithoutWire(c0) == With(structure, c0, Air)
FindFrom(c0, f) ==
    FindGroupEntered(wire_graph, WithoutWire(c0), Step(structure, c0, f), Inverse(f),
                     AllFor(c0), <<>>)
RenameFrom(c0, f) ==
    RenameGroupEntered(NewGroup(wire_graph, FALSE, NoCoords), WithoutWire(c0),
                       wire_graph.next_group_id, Step(structure, c0, f), Inverse(f),
                       AllFor(c0), <<>>)
SearchStarts ==
    {s \in (DOMAIN structure) \X Faces :
        /\ BlockAt(structure, s[1]) = "logic_wire"
        /\ Step(structure, s[1], s[2]) # NoCoords}

\* C26: find_group and rename_group come to an end on every wire network,
\* with or without wire cycles: in one search no (coordinate, face) pair of a
\* wire block is entered twice, the search is never cut off, and it gives
\* the result of the search without the record.
C26_EachWireFaceEnteredOnce ==
    \A s \in SearchStarts :
        LET st == WithoutWire(s[1])
            n == Step(structure, s[1], s[2])
            found == FindFrom(s[1], s[2])
            plain == FindGroup(wire_graph, st, n, Inverse(s[2]), AllFor(s[1]))
            renamed == RenameFrom(s[1], s[2])
            rplain == RenameGroup(NewGroup(wire_graph, FALSE, NoCoords), st,
                                  wire_graph.next_group_id, n, Inverse(s[2]),
                                  AllFor(s[1]))
        IN  /\ NoRepeat(found.entered) /\ Len(found.entered) < MaxEntered
            /\ found.entered \in Seq(found.visited) \/ found.group # NoGroup
            /\ found.group = plain.group /\ found.visited = plain.visited
            /\ NoRepeat(renamed.entered) /\ Len(renamed.entered) < MaxEntered
            /\ \A k \in 1..Len(renamed.entered) : renamed.entered[k] \in renamed.visited
            /\ renamed.g = rplain.g /\ renamed.visited = rplain.visited
            /\ renamed.used = rplain.used

\* A renaming search that runs round a wire cycle and comes back to a wire it
\* is still working on, through another face, and a find_group search that
\* passes through three wires.
C26_Witness ==
    /\ \E s \in SearchStarts :
          LET entered == RenameFrom(s[1], s[2]).entered
          IN  \E i, j \in 1..Len(entered) :
                  i < j /\ entered[i][1] = entered[j][1]
    /\ \E s \in SearchStarts : Len(FindFrom(s[1], s[2]).entered) >= 3


\* The faces of c that have a neighbour coordinate, in the order of the loop
\* of remove_logic_block, and the id that loop allocates for the i-th of them.
RECURSIVE FacesInBounds(_, _, _)
FacesInBounds(st, c, f) ==
    IF f > 5 THEN <<>>
    ELSE IF Step(st, c, f) # NoCoords THEN <<f>> \o FacesInBounds(st, c, f + 1)
         ELSE FacesInBounds(st, c, f + 1)

\* The remaining network on the face f of the removed block, NoNet without one.
NoNet == [wires |-> {}, ports |-> {}]
NetOnFace(st, c, f) ==
    IF ConnectionAt(st, Step(st, c, f), Inverse(f)) = NoConnection THEN NoNet
    ELSE NetAt(st, Step(st, c, f), Inverse(f))

\* Two wire neighbours of the removed wire at c lie in one remaining network.
StillJoined(st, c) ==
    \E f, h \in Faces :
        /\ f < h
        /\ Step(st, c, f) # NoCoords /\ Step(st, c, h) # NoCoords
        /\ NetOnFace(st, c, f) # NoNet
        /\ NetOnFace(st, c, f) = NetOnFace(st, c, h)

\* C27: when a wire is removed, the loop over its faces allocates one id per
\* neighbour coordinate; the id allocated for a neighbour is a group afterwards
\* exactly when the neighbour has a connection on the facing side and its
\* network was not found from an earlier face.  Neighbours that are still
\* connected through another wire path therefore share one new group: the
\* new groups are as many as the remaining networks, each network has one
\* new group that all its ports map to and that names one of its wires.
C27_RemovalStep ==
    \A c \in DOMAIN structure :
        WireRemoved(c)
        => LET st == structure'
               faces == FacesInBounds(st, c, 0)
               first == wire_graph.next_group_id
               new == NewGroups(wire_graph, wire_graph')
           IN  /\ wire_graph'.next_group_id = first + Len(faces)
               /\ \A i \in 1..Len(faces) :
                      (first + i - 1 \in DOMAIN wire_graph'.groups)
                      <=> /\ NetOnFace(st, c, faces[i]) # NoNet
                          /\ \A j \in 1..(i - 1) :
                                 NetOnFace(st, c, faces[j]) # NetOnFace(st, c, faces[i])
               /\ Cardinality(new) = Cardinality(NeighborNets(st, c))
               /\ \A net \in NeighborNets(st, c) :
                      \E id \in new :
                          /\ PortsMappedTo(wire_graph', id) = net.ports
                          /\ \A other_id \in new \ {id} :
                                 /\ PortsMappedTo(wire_graph', other_id) \cap net.ports = {}
                                 /\ wire_graph'.groups[other_id].recent_wire_coords
                                        \notin net.wires
                          /\ net.wires # {}
                                 => wire_graph'.groups[id].recent_wire_coords \in net.wires

C27_JoinedNeighborsShareOneGroup == [][C27_RemovalStep]_vars

\* A wire was removed just now whose two wire neighbours are in one remaining
\* network of three wires: the cell is empty, and of the two ids allocated for
\* its neighbours only the first is a group, which names the first neighbour;
\* no other group is left.
C27_Witness ==
    \E c \in DOMAIN structure :
        /\ BlockAt(structure, c) = Air
        /\ StillJoined(structure, c)
        /\ Len(FacesInBounds(structure, c, 0)) = 2
        /\ DOMAIN wire_graph.groups = {wire_graph.next_group_id - 2}
        /\ wire_graph.groups[wire_graph.next_group_id - 2].recent_wire_coords
               = Step(structure, c, FacesInBounds(structure, c, 0)[1])
        /\ Cardinality({w \in DOMAIN structure : BlockAt(structure, w) = "logic_wire"}) = 3
        /\ RegisteredPorts(wire_graph) = {}


\* The port map and the port lists of one kind of port.
GroupOfKind(g, kind) == IF kind = Input THEN g.group_of_input_port ELSE g.group_of_output_port
PortsOfKind(g, kind) == IF kind = Input THEN g.input_ports_of_group ELSE g.output_ports_of_group

\* How often the port occurs in the list of the group.
Occurrences(ports_of, id, port) ==
    IF id \in DOMAIN ports_of /\ port \in DOMAIN ports_of[id] THEN ports_of[id][port] ELSE 0

\* The block at c had ports and was replaced by a block without a logic entry,
\* so that remove_port ran for each of its ports and nothing was added.
PortBlockRemoved(c) ==
    /\ IsLogicBlock(BlockAt(structure, c))
    /\ Len(InputFaces(BlockAt(structure, c))) + Len(OutputFaces(BlockAt(structure, c))) > 0
    /\ Len(WireFaces(BlockAt(structure, c))) = 0
    /\ ~IsLogicBlock(BlockAt(structure', c))

\* The groups of the ports of c behind whose neighbour face nothing is left.
LonePortGroups(c) ==
    {GroupOfKind(wire_graph, kind)[p] :
        <<kind, p>> \in {kp \in {Input, Output} \X RegisteredPorts(wire_graph) :
                            /\ kp[2] \in DOMAIN GroupOfKind(wire_graph, kp[1])
                            /\ kp[2][1] = c
                            /\ NetOnFace(structure', c, kp[2][2]) = NoNet}}

\* C28: when a block with ports is removed, each of its ports leaves the port
\* map; the group of a port is deleted exactly when nothing is reachable
\* through the neighbour face of the port; otherwise the group stays as it
\* was (id, signal, wire coordinate), the port is gone from its list and the
\* other ports are listed as before.  Every port of another block keeps its
\* group id, and no registered port maps to a group that does not exist.
C28_RemovePortStep ==
    \A c \in DOMAIN structure :
        PortBlockRemoved(c)
        => /\ \A kind \in {Input, Output} :
                 \A p \in DOMAIN GroupOfKind(wire_graph, kind) :
                    LET id == GroupOfKind(wire_graph, kind)[p]
                    IN  IF p[1] = c
                        THEN /\ p \notin DOMAIN GroupOfKind(wire_graph', kind)
                             /\ Occurrences(PortsOfKind(wire_graph', kind), id, p) = 0
                             /\ id \notin LonePortGroups(c)
                                    => /\ id \in DOMAIN wire_graph'.groups
                                       /\ wire_graph'.groups[id] = wire_graph.groups[id]
                        ELSE /\ p \in DOMAIN GroupOfKind(wire_graph', kind)
                             /\ GroupOfKind(wire_graph', kind)[p] = id
                             /\ Occurrences(PortsOfKind(wire_graph', kind), id, p)
                                    = Occurrences(PortsOfKind(wire_graph, kind), id, p)
           /\ (DOMAIN wire_graph.groups) \ (DOMAIN wire_graph'.groups) = LonePortGroups(c)
           /\ (DOMAIN wire_graph'.groups) \subseteq (DOMAIN wire_graph.groups)
           /\ \A q \in RegisteredPorts(wire_graph') :
                 GroupOfPort(wire_graph', q) \in DOMAIN wire_graph'.groups

C28_RemovePortKeepsSharedGroup == [][C28_RemovePortStep]_vars


\* A wire is placed at c, where no logic block was.
WirePlaced(c) ==
    /\ ~IsLogicBlock(BlockAt(structure, c))
    /\ BlockAt(structure', c) = "logic_wire"

\* C29: placing a wire that touches exactly one group changes nothing in the
\* graph but the representative wire coordinate of that group, which becomes
\* the coordinate of the new wire: the group keeps its id, its signal and its
\* port lists, no port changes its group, no group is made or deleted and no
\* id is allocated.
C29_JoinStep ==
    \A c \in DOMAIN structure :
        (WirePlaced(c) /\ Cardinality(TouchedGroups(wire_graph, structure, c)) = 1)
        => \E id \in TouchedGroups(wire_graph, structure, c) :
              /\ DOMAIN wire_graph'.groups = DOMAIN wire_graph.groups
              /\ wire_graph'.groups[id].recent_wire_coords = c
              /\ wire_graph'.groups[id].on = wire_graph.groups[id].on
              /\ wire_graph'.input_ports_of_group = wire_graph.input_ports_of_group
              /\ wire_graph'.output_ports_of_group = wire_graph.output_ports_of_group
              /\ wire_graph'.group_of_input_port = wire_graph.group_of_input_port
              /\ wire_graph'.group_of_output_port = wire_graph.group_of_output_port
              /\ \A other_id \in (DOMAIN wire_graph.groups) \ {id} :
                     wire_graph'.groups[other_id] = wire_graph.groups[other_id]
              /\ wire_graph'.next_group_id = wire_graph.next_group_id
              /\ ~wire_graph'.panicked

C29_JoiningWireOnlyMovesHint == [][C29_JoinStep]_vars

\* A wire joined the group of the output port next to it: no group was ever
\* deleted, the structure holds the wire and the output block only, and the
\* group allocated last, for the port facing the wire, names the wire.
C29_Witness ==
    \E c \in DOMAIN structure, p \in DOMAIN wire_graph.group_of_output_port :
        /\ BlockAt(structure, c) = "logic_wire"
        /\ FacedCell(structure, p) = c
        /\ Cardinality({b \in DOMAIN structure : BlockAt(structure, b) # Air}) = 2
        /\ wire_graph.next_group_id = Cardinality(DOMAIN wire_graph.groups)
        /\ wire_graph.group_of_output_port[p] = wire_graph.next_group_id - 1
        /\ wire_graph.groups[wire_graph.next_group_id - 1].recent_wire_coords = c


RECURSIVE StructureBefore(_, _, _, _)
StructureBefore(st, evs, entity, i) ==
    IF i = 0 THEN st
    ELSE StructureBefore(IF evs[i].structure_entity = entity
                         THEN With(st, evs[i].block, evs[i].old_block) ELSE st,
                         evs, entity, i - 1)

\* The graph of the entity when each block change of evs, from the i-th on, is
\* made and handled before the next one is made; st is the structure before
\* the i-th change.
RECURSIVE OneAtATime(_, _, _, _, _)
OneAtATime(g, st, evs, entity, i) ==
    IF i > Len(evs) THEN g
    ELSE IF evs[i].structure_entity # entity THEN OneAtATime(g, st, evs, entity, i + 1)
    ELSE OneAtATime(BlockChanged(g, With(st, evs[i].block, evs[i].new_block),
                                 evs[i].old_block, evs[i].new_block, evs[i].block),
                    With(st, evs[i].block, evs[i].new_block), evs, entity, i + 1)

\* The graph of the entity had the changes of evs been handled one at a time.
Sequentially(entity) ==
    OneAtATime(wire_graph[entity],
               StructureBefore(structure[entity], events.block_changed, entity,
                               Len(events.block_changed)),
               events.block_changed, entity, 1)

\* C31 as stated: when the listener handles the block changes of a pass, all
\* made to the structures before it runs, no expect fails and every graph ends
\* as it would had the changes been handled one at a time.
C31_BatchStep ==
    Ran("EditLogicGraph")
    => \A entity \in Entities :
          /\ ~wire_graph'[entity].panicked
          /\ wire_graph'[entity] = Sequentially(entity)

C31_BatchEqualsOneAtATime == [][C31_BatchStep]_vars


\* The block of the cell has a port of the kind in the direction: the face of
\* the block that points there holds that connection.
HasPort(st, port, kind) ==
    /\ IsLogicBlock(BlockAt(st, port[1]))
    /\ ConnectionOn(BlockAt(st, port[1]),
                    LocalToGlobal(BlockRotation(st, port[1]), port[2])) = kind

\* C32 as stated: when a logic block is replaced or removed, whatever the up
\* face of the block that takes its place, none of its ports stays behind: a
\* port of the cell that is in a port map or in a port list afterwards is a
\* port of the block the cell holds now.
C32_ReplacedStep ==
    \A c \in DOMAIN structure :
        (IsLogicBlock(BlockAt(structure, c)) /\ structure'[c] # structure[c])
        => \A kind \in {Input, Output}, f \in Faces :
              /\ Port(c, f) \in DOMAIN GroupOfKind(wire_graph', kind)
                    => HasPort(structure', Port(c, f), kind)
              /\ \A id \in DOMAIN PortsOfKind(wire_graph', kind) :
                    Occurrences(PortsOfKind(wire_graph', kind), id, Port(c, f)) > 0
                    => HasPort(structure', Port(c, f), kind)

C32_RemovalDetachesAllPorts == [][C32_ReplacedStep]_vars


\* C33: when a wire is removed and no logic block takes its place, one group
\* is removed, every group the removal creates has the signal the removed
\* group had before the removal, and every registered port stays registered
\* with a group of the signal its group had before.
C33_RemovalStep ==
    \A c \in DOMAIN structure :
        WireRemoved(c)
        => /\ ~wire_graph'.panicked
           /\ Cardinality(NewGroups(wire_graph', wire_graph)) = 1
           /\ \A id \in NewGroups(wire_graph, wire_graph'),
                 old \in NewGroups(wire_graph', wire_graph) :
                 wire_graph'.groups[id].on = wire_graph.groups[old].on
           /\ RegisteredPorts(wire_graph') = RegisteredPorts(wire_graph)
           /\ \A p \in RegisteredPorts(wire_graph) :
                 /\ GroupOfPort(wire_graph, p) \in DOMAIN wire_graph.groups
                 /\ GroupOfPort(wire_graph', p) \in DOMAIN wire_graph'.groups
                 /\ wire_graph'.groups[GroupOfPort(wire_graph', p)].on
                        = wire_graph.groups[GroupOfPort(wire_graph, p)].on

C33_NewGroupsKeepSignal == [][C33_RemovalStep]_vars


\* The row logic_on, wire, air, wire after the wire between the two wires was
\* removed from a driven line: two groups that are on, the one of the last
\* wire without any port, made by the removal as the groups 1 and 2.
C33_Witness ==
    /\ BlockAt(structure, <<0, 0, 0>>) = "logic_on"
    /\ BlockAt(structure, <<1, 0, 0>>) = "logic_wire"
    /\ BlockAt(structure, <<2, 0, 0>>) = Air
    /\ BlockAt(structure, <<3, 0, 0>>) = "logic_wire"
    /\ Cardinality(DOMAIN wire_graph.groups) = 2
    /\ \A id \in DOMAIN wire_graph.groups : wire_graph.groups[id].on
    /\ \E id \in DOMAIN wire_graph.groups :
          /\ wire_graph.groups[id].recent_wire_coords = <<3, 0, 0>>
          /\ PortCount(wire_graph, id) = 0
    /\ wire_graph.next_group_id = 3


\* The cells that hold a block with wire faces.
WireCells(st) == {c \in DOMAIN st : \E f \in Faces : ConnectionAt(st, c, f) = Wire}

\* The groups whose wire coordinate lies in the wire network of the cell c.
Representatives(g, st, c) ==
    {id \in DOMAIN g.groups : g.groups[id].recent_wire_coords \in WireComponent(st, {c})}

\* The ports on the wire network of the cell c.
PortsOnWires(st, c) == NetAt(st, c, 0).ports

\* The wire coordinate of every group is a wire of the structure, every wire
\* network has exactly one group naming one of its wires, and the ports on the
\* network belong to that group.
RepresentativesValid ==
    /\ \A id \in DOMAIN wire_graph.groups :
          wire_graph.groups[id].recent_wire_coords # NoCoords
          => wire_graph.groups[id].recent_wire_coords \in WireCells(structure)
    /\ \A c \in WireCells(structure) :
          /\ Cardinality(Representatives(wire_graph, structure, c)) = 1
          /\ \A p \in PortsOnWires(structure, c) :
                /\ p \in RegisteredPorts(wire_graph)
                /\ GroupOfPort(wire_graph, p) \in Representatives(wire_graph, structure, c)

\* The group the search through the neighbours of the wire at c finds, the
\* wire's own coordinate not being looked up.
FullSearch(g, st, c) ==
    FindGroupAllFaces(g, st, c, WireFaces(BlockAt(st, c)), 1, AllFor(c))

\* C34 as stated: the wire coordinates are valid and for every wire that a
\* group names, the search through its neighbours finds that group.
C34_ShortcutEqualsFullSearch ==
    ~wire_graph.panicked
    => /\ RepresentativesValid
       /\ \A c \in WireCells(structure) :
             RecentGroup(wire_graph, c) # NoGroup
             => FullSearch(wire_graph, structure, c) = RecentGroup(wire_graph, c)

\* C34: the wire coordinate of every group is a wire of the structure, every
\* wire network has exactly one group naming one of its wires, with the ports
\* of the network; for a wire that a group names the search through its
\* neighbours finds the same group when the network has a port, and no group
\* when the network has none.
C34_RepresentativeWiresValid ==
    ~wire_graph.panicked
    => /\ RepresentativesValid
       /\ \A c \in WireCells(structure) :
             RecentGroup(wire_graph, c) # NoGroup
             => FullSearch(wire_graph, structure, c)
                   = IF PortsOnWires(structure, c) # {} THEN RecentGroup(wire_graph, c)
                     ELSE NoGroup


\* A group names a wire of a network of two or more wires with a port, and the
\* search through that wire's neighbours finds the group; another group names
\* a wire of a network without ports, where the search finds no group.
C34_Witness ==
    /\ ~wire_graph.panicked
    /\ \E c \in WireCells(structure), d \in WireCells(structure) :
          /\ RecentGroup(wire_graph, c) # NoGroup
          /\ Cardinality(WireComponent(structure, {c})) >= 2
          /\ PortsOnWires(structure, c) # {}
          /\ FullSearch(wire_graph, structure, c) = RecentGroup(wire_graph, c)
          /\ RecentGroup(wire_graph, d) # NoGroup
          /\ PortsOnWires(structure, d) = {}
          /\ FullSearch(wire_graph, structure, d) = NoGroup


\* Every event of the sequence was sent in the tick `now`.
SentIn(events_of, now) == \A i \in 1..Len(events_of) : events_of[i].tick = now

\* C35: a step of SendQueues emits every event of the two queues once, behind
\* the events already emitted, and leaves both queues empty; the events it
\* emits were all sent in the tick before, and after every step the events
\* that are queued or about to be queued were sent in the running tick, so
\* that no event that was queued before a flush is in a queue after it.
C35_FlushStep ==
    /\ Ran("SendQueues")
       => /\ logic_input_event_queue' = <<>>
          /\ logic_output_event_queue' = <<>>
          /\ events'.logic_input = events.logic_input \o logic_input_event_queue
          /\ events'.logic_output = events.logic_output \o logic_output_event_queue
          /\ SentIn(logic_input_event_queue \o logic_output_event_queue, tick' - 1)
    /\ SentIn(PendingInputs' \o PendingOutputs', tick')

C35_DeliveredAtMostOnce == [][C35_FlushStep]_vars

\* SendQueues has just run in the second tick and emitted input and output
\* events sent in the first tick, whose flush had emitted the event that
\* turned a group on; both queues are empty.
C35_Witness ==
    /\ phase = FirstTimed + 1
    /\ tick = 2
    /\ logic_input_event_queue = <<>>
    /\ logic_output_event_queue = <<>>
    /\ Len(events.logic_input) > 0
    /\ Len(events.logic_output) > 0
    /\ SentIn(events.logic_input \o events.logic_output, 1)
    /\ \E id \in DOMAIN wire_graph.groups : wire_graph.groups[id].on


\* The position on an axis, in blocks from the centre of sector 0.
Absolute(this, i) == SECTOR_DIMENSIONS * SectorOf(this, i) + this.local[i]

\* C36: `location += rhs` returns, and on every axis the absolute position
\* after the call is the one before plus rhs, with the local coordinate less
\* than one sector away from the centre of its sector.
C36_AddAssignStep ==
    (~add_assign.called /\ add_assign'.called)
    => /\ ~add_assign'.panicked
       /\ \A i \in 1..3 :
             /\ Absolute(location', i) = Absolute(location, i) + add_assign'.rhs[i]
             /\ location'.local[i] < SECTOR_DIMENSIONS
             /\ location'.local[i] > -SECTOR_DIMENSIONS

C36_AddAssignPreservesPosition == [][C36_AddAssignStep]_vars

====
